---- MODULE Spec2Model ----
(***************************************************************************)
(* Model of the innersync sync orchestration engine:                       *)
(*   innersync-core/src/service.js   (class SyncService)                   *)
(*   innersync-core/src/apiClient.js (uploadTimetable and the token cache) *)
(*                                                                         *)
(* JavaScript runs the service on one thread.  A step of the model is one  *)
(* run-to-completion turn of the event loop: the code from the arrival of  *)
(* a call, a watcher event, a timer firing or an I/O completion up to the  *)
(* next await of real I/O (file read, watcher close, network request).     *)
(* Awaits of already-settled promises only yield to the microtask queue    *)
(* and are part of the same step.                                          *)
(***************************************************************************)
EXTENDS Integers, Sequences, FiniteSets, TLC

\* ---------------------------------------------------------------- bounds
MaxRuns == 2          \* pipeline executions started in one behaviour
MaxHistoryLimit == 2  \* largest configured historyLimit explored
MaxDisk == 3          \* longest persisted history list explored
MaxAttempts == 3      \* upload requests sent by one uploadTimetable call

\* ------------------------------------------------------- reasons (strings)
\* A reason string is the sequence of its space-separated words; a word is
\* <<first character, remaining characters>>.
StartupReason == << <<"S", "tartup">>, <<"S", "ync">> >>
ManualTrigger == << <<"m", "anual">>, <<"t", "rigger">> >>
FileAdded == << <<"f", "ile">>, <<"a", "dded:">>, <<"/", "w/Timetable.tfx">> >>
FileChanged == << <<"f", "ile">>, <<"c", "hanged:">>, <<"/", "w/Timetable.tfx">> >>
ChangeDetected == << <<"c", "hange">>, <<"d", "etected">> >>

ManualReasons == {ManualTrigger}
FileReasons == {FileAdded, FileChanged}

toUpperCase(c) ==
  CASE c = "a" -> "A"
    [] c = "c" -> "C"
    [] c = "d" -> "D"
    [] c = "f" -> "F"
    [] c = "m" -> "M"
    [] c = "t" -> "T"
    [] OTHER -> c

\* capitalizeReason that capitalises the first word only
capitalizeReasonFirstWord(text) ==
  [i \in 1..Len(text) |->
     IF i = 1 THEN <<toUpperCase(text[i][1]), text[i][2]>> ELSE text[i]]

capitalizeReason(text) ==
  [i \in 1..Len(text) |-> <<toUpperCase(text[i][1]), text[i][2]>>]

\* --------------------------------------------------------------- messages
\* Messages are strings too; they are never split into words.
Undefined == << >>
NoToken == << <<"n", "o">>, <<"t", "oken">> >>
DuplicateMessage == << <<"D", "uplicate payload">> >>
ExportFailed == << <<"E", "NOENT: no such file or directory">> >>
ReadFailed == << <<"E", "NOENT: export file unreadable">> >>
CacheWriteFailed == << <<"E", "ACCES: permission denied">> >>
LoginFailed == << <<"L", "ogin failed with status 500">> >>
UploadFailed401 == << <<"U", "pload failed with status 401">> >>
UploadFailed500 == << <<"U", "pload failed with status 500">> >>

\* ------------------------------------------------------------------ state
VARIABLES
  state,          \* this.state
  running,        \* this.running
  paused,         \* this.paused
  lastRun,        \* this.lastRun (0 = null, otherwise the run's timestamp)
  lastResult,     \* this.lastResult
  history,        \* this.history
  watcher,        \* this.watcher (0 = null, otherwise a watcher object)
  timer,          \* this.timer (0 = null, otherwise a timeout handle)
  pendingReason,  \* this.pendingReason (<<>> = null, otherwise <<reason>>)
  historyLimit,   \* this.historyLimit
  hasWatchFiles,  \* this.paths.watchFiles.length > 0
  apiToken,       \* config.apiToken ("none" or "explicit")
  loginCreds,     \* config.login has email and password
  runBudget,      \* runSync executions followed in one behaviour
  liveTimers,     \* timeouts set and neither fired nor cleared
  openWatchers,   \* watcher objects that still deliver events
  disk,           \* content of the history file
  tokenCache,     \* content of the token cache file ("none" or a token)
  remote,         \* the remote: whether it rejects a repeated fingerprint, and
                  \* the fingerprints it has stored
  savePending,    \* saveHistory() calls that have not written yet
  startPc,        \* position of the start() call
  stopPc,         \* position of the stop() call
  pausePc,        \* position of the pause() call
  runs,           \* runSync executions, in the order they started
  emitted,        \* events emitted by the last step, in order
  lastStatus,     \* the snapshot carried by the most recent 'status' event
  desk            \* the desktop application around the core service: the
                  \* SyncController, the core services it has created, the
                  \* SettingsStore and the controller calls in progress

svc == <<state, running, paused, lastRun, lastResult, history, watcher, timer,
         pendingReason>>
cfg == <<historyLimit, hasWatchFiles, apiToken, loginCreds, runBudget>>
env == <<liveTimers, openWatchers, disk, tokenCache, remote, savePending>>
ctl == <<startPc, stopPc, pausePc, runs>>
vars == <<svc, cfg, env, ctl, emitted, lastStatus, desk>>

TimerIds == 1..8
WatcherIds == 1..4

NoResult == [status |-> "none", reason |-> Undefined, message |-> Undefined,
             payloadHash |-> "none"]

OldEntry(n) == [timestamp |-> 0 - n, status |-> "success",
                reason |-> capitalizeReason(StartupReason),
                message |-> Undefined]

\* Persisted lists: the last k entries written by an earlier session.
PersistedLists == {[i \in 1..k |-> OldEntry(k + 1 - i)] : k \in 1..MaxDisk}

InFlight == {i \in 1..Len(runs) : runs[i].phase # "done"}

\* the object getStatus() builds from the given field values
statusOf(st, pa, ru, lr, res, h) ==
  [state |-> st, paused |-> pa, running |-> ru, lastRun |-> lr,
   lastResult |-> res, history |-> h, watchFiles |-> hasWatchFiles]

\* getStatus()
getStatus == statusOf(state, paused, running, lastRun, lastResult, history)

\* no 'status' event has been emitted yet
NoStatus == [state |-> "none"]

\* a finished run keeps nothing
DoneRun == [phase |-> "done", reason |-> Undefined, timestamp |-> 0,
            via |-> "none", preempted |-> FALSE, stopSeen |-> FALSE,
            token |-> "none", sent |-> 0]

\* ------------------------------------------------------ history (service.js)
\* Array.prototype.slice(-n) for a positive integer n
sliceLast(list, n) ==
  IF Len(list) <= n THEN list ELSE SubSeq(list, Len(list) - n + 1, Len(list))

\* pushHistory with the splice left out
pushHistoryNoEviction(h, entry, limit) == Append(h, entry)

\* pushHistory: push, then splice(0, length - historyLimit) when too long
pushHistory(h, entry, limit) ==
  LET pushed == Append(h, entry)
  IN IF Len(pushed) > limit
       THEN SubSeq(pushed, Len(pushed) - limit + 1, Len(pushed))
       ELSE pushed

\* loadHistory once readFile has settled
loadHistory(h, file, limit) ==
  CASE file.kind = "array" -> sliceLast(file.list, limit)
    [] file.kind = "other" -> h
    [] OTHER -> << >>

\* ------------------------------------------------- handles (setTimeout, chokidar)
\* setTimeout returns a handle that is not in use
NewTimer(live) == CHOOSE n \in TimerIds :
  /\ n \notin live
  /\ \A m \in TimerIds : m \notin live => n <= m

\* chokidar.watch returns a new watcher object
NewWatcher == CHOOSE n \in WatcherIds :
  /\ n \notin openWatchers
  /\ \A m \in WatcherIds : m \notin openWatchers => n <= m

\* ------------------------------------------------------ runSync (entry part)
\* runSync up to its first await: running, state, emitStatus, timestamp, and the
\* call of generateTimetable.  via names the caller ("start", "trigger" for
\* triggerSync, "timer" for a timeout); preempted records that the caller
\* cleared a live timeout.
runSyncBegin(reason, via, preempted) ==
  /\ Len(runs) < runBudget
  /\ running' = TRUE
  /\ state' = "syncing"
  /\ emitted' = <<"status">>
  /\ lastStatus' = statusOf("syncing", paused, TRUE, lastRun, lastResult,
                            history')
  /\ runs' = Append(runs, [phase |-> "export", reason |-> reason,
                           timestamp |-> Len(runs) + 1, via |-> via,
                           preempted |-> preempted, stopSeen |-> FALSE,
                           token |-> "none", sent |-> 0])

\* processQueue that gives up while a run is in progress or the service paused
processQueueDropsWhenBusy(pr, lt, via) ==
  IF running \/ paused
    THEN /\ timer' = 0
         /\ liveTimers' = lt
         /\ pendingReason' = pr
         /\ emitted' = << >>
         /\ UNCHANGED lastStatus
         /\ UNCHANGED <<state, running, runs>>
    ELSE /\ pendingReason' = << >>
         /\ timer' = 0
         /\ liveTimers' = lt
         /\ runSyncBegin(IF pr = << >> \/ pr[1] = << >>
                           THEN ChangeDetected ELSE pr[1],
                         via, via = "trigger" /\ lt # liveTimers)

\* processQueue that re-arms the timeout without keeping the pending reason
processQueueForgetsReason(pr, lt, via) ==
  IF running \/ paused
    THEN /\ timer' = NewTimer(lt)
         /\ liveTimers' = lt \cup {NewTimer(lt)}
         /\ pendingReason' = << >>
         /\ emitted' = << >>
         /\ UNCHANGED lastStatus
         /\ UNCHANGED <<state, running, runs>>
    ELSE /\ pendingReason' = << >>
         /\ timer' = 0
         /\ liveTimers' = lt
         /\ runSyncBegin(IF pr = << >> \/ pr[1] = << >>
                           THEN ChangeDetected ELSE pr[1],
                         via, via = "trigger" /\ lt # liveTimers)

\* processQueue, entered from via with pending reason pr and live timeouts lt
processQueue(pr, lt, via) ==
  IF running \/ paused
    THEN /\ timer' = NewTimer(lt)
         /\ liveTimers' = lt \cup {NewTimer(lt)}
         /\ pendingReason' = pr
         /\ emitted' = << >>
         /\ UNCHANGED lastStatus
         /\ UNCHANGED <<state, running, runs>>
    ELSE /\ pendingReason' = << >>
         /\ timer' = 0
         /\ liveTimers' = lt
         /\ runSyncBegin(IF pr = << >> \/ pr[1] = << >>
                           THEN ChangeDetected ELSE pr[1],
                         via, via = "trigger" /\ lt # liveTimers)

\* scheduleRun that keeps an earlier pending reason
scheduleRunKeepsFirst(reason, immediate) ==
  IF paused
    THEN /\ emitted' = << >>
         /\ UNCHANGED lastStatus
         /\ UNCHANGED <<pendingReason, timer, liveTimers, state, running, runs>>
    ELSE IF immediate
      THEN processQueue(<<reason>>, liveTimers \ {timer}, "trigger")
      ELSE /\ pendingReason' = IF pendingReason = << >> THEN <<reason>>
                               ELSE pendingReason
           /\ timer' = NewTimer(liveTimers \ {timer})
           /\ liveTimers' = (liveTimers \ {timer})
                              \cup {NewTimer(liveTimers \ {timer})}
           /\ emitted' = << >>
           /\ UNCHANGED lastStatus
           /\ UNCHANGED <<state, running, runs>>

\* scheduleRun that does not clear the timeout of an immediate trigger
scheduleRunKeepsTimer(reason, immediate) ==
  IF paused
    THEN /\ emitted' = << >>
         /\ UNCHANGED lastStatus
         /\ UNCHANGED <<pendingReason, timer, liveTimers, state, running, runs>>
    ELSE IF immediate
      THEN processQueue(<<reason>>, liveTimers, "trigger")
      ELSE /\ pendingReason' = <<reason>>
           /\ timer' = NewTimer(liveTimers \ {timer})
           /\ liveTimers' = (liveTimers \ {timer})
                              \cup {NewTimer(liveTimers \ {timer})}
           /\ emitted' = << >>
           /\ UNCHANGED lastStatus
           /\ UNCHANGED <<state, running, runs>>

\* scheduleRun without the paused check
scheduleRunWhilePaused(reason, immediate) ==
  IF immediate
    THEN processQueue(<<reason>>, liveTimers \ {timer}, "trigger")
    ELSE /\ pendingReason' = <<reason>>
         /\ timer' = NewTimer(liveTimers \ {timer})
         /\ liveTimers' = (liveTimers \ {timer})
                            \cup {NewTimer(liveTimers \ {timer})}
         /\ emitted' = << >>
         /\ UNCHANGED lastStatus
         /\ UNCHANGED <<state, running, runs>>

\* scheduleRun that shows the state 'syncing' as soon as a trigger is accepted
scheduleRunAnnounces(reason, immediate) ==
  IF paused
    THEN /\ emitted' = << >>
         /\ UNCHANGED lastStatus
         /\ UNCHANGED <<pendingReason, timer, liveTimers, state, running, runs>>
    ELSE IF immediate
      THEN processQueue(<<reason>>, liveTimers \ {timer}, "trigger")
      ELSE /\ pendingReason' = <<reason>>
           /\ timer' = NewTimer(liveTimers \ {timer})
           /\ liveTimers' = (liveTimers \ {timer})
                              \cup {NewTimer(liveTimers \ {timer})}
           /\ state' = "syncing"
           /\ emitted' = <<"status">>
           /\ lastStatus' = statusOf("syncing", paused, running, lastRun,
                                     lastResult, history)
           /\ UNCHANGED <<running, runs>>

\* scheduleRun that arms a new timeout without clearing the one before it
scheduleRunStacksTimeouts(reason, immediate) ==
  IF paused
    THEN /\ emitted' = << >>
         /\ UNCHANGED lastStatus
         /\ UNCHANGED <<pendingReason, timer, liveTimers, state, running, runs>>
    ELSE IF immediate
      THEN processQueue(<<reason>>, liveTimers \ {timer}, "trigger")
      ELSE /\ pendingReason' = <<reason>>
           /\ timer' = NewTimer(liveTimers)
           /\ liveTimers' = liveTimers \cup {NewTimer(liveTimers)}
           /\ emitted' = << >>
           /\ UNCHANGED lastStatus
           /\ UNCHANGED <<state, running, runs>>

\* scheduleRun(reason, immediate)
scheduleRun(reason, immediate) ==
  IF paused
    THEN /\ emitted' = << >>
         /\ UNCHANGED lastStatus
         /\ UNCHANGED <<pendingReason, timer, liveTimers, state, running, runs>>
    ELSE IF immediate
      THEN processQueue(<<reason>>, liveTimers \ {timer}, "trigger")
      ELSE /\ pendingReason' = <<reason>>
           /\ timer' = NewTimer(liveTimers \ {timer})
           /\ liveTimers' = (liveTimers \ {timer})
                              \cup {NewTimer(liveTimers \ {timer})}
           /\ emitted' = << >>
           /\ UNCHANGED lastStatus
           /\ UNCHANGED <<state, running, runs>>

\* what the scheduling code never touches
SchedFrame == UNCHANGED <<paused, lastRun, lastResult, history, watcher, cfg, desk,
                          openWatchers, disk, tokenCache, remote, savePending,
                          startPc, stopPc, pausePc>>

\* triggerSync(reason)
TriggerSync(reason) ==
  /\ startPc # "init"
  /\ SchedFrame
  /\ IF paused
       THEN /\ emitted' = << >>
            /\ UNCHANGED lastStatus
            /\ UNCHANGED <<pendingReason, timer, liveTimers, state, running,
                           runs>>
       ELSE scheduleRun(reason, TRUE)

\* the watcher's 'add' and 'change' listeners
WatcherEvent(w, reason) ==
  /\ w \in openWatchers
  /\ SchedFrame
  /\ scheduleRun(reason, FALSE)

\* an 'unlink' listener that schedules a run as the 'change' listener does
WatcherUnlinkSchedules(w) ==
  /\ w \in openWatchers
  /\ SchedFrame
  /\ scheduleRun(FileChanged, FALSE)

\* the watcher's 'unlink' listener only logs
WatcherUnlink(w) ==
  /\ w \in openWatchers
  /\ emitted' = << >>
  /\ UNCHANGED lastStatus
  /\ UNCHANGED <<svc, cfg, desk, env, ctl>>

\* a debounce timeout fires: () => this.processQueue()
TimerFire(h) ==
  /\ h \in liveTimers
  /\ SchedFrame
  /\ processQueue(pendingReason, liveTimers \ {h}, "timer")

\* --------------------------------------------------- runSync (after the awaits)
\* runSync that emits the final 'status' before pushHistory emits 'history'
runSyncResolvedStatusFirst(i, res) ==
  LET resultStatus == IF res.skipped THEN "skipped" ELSE "success"
      uploadMessage == IF res.message # Undefined THEN res.message
                       ELSE res.reason
  IN /\ lastRun' = runs[i].timestamp
     /\ lastResult' = [status |-> resultStatus,
                       payloadHash |-> res.payloadHash,
                       reason |-> IF res.reason # Undefined THEN res.reason
                                  ELSE runs[i].reason,
                       message |-> uploadMessage]
     /\ state' = "idle"
     /\ history' = pushHistory(history,
                     [timestamp |-> runs[i].timestamp,
                      status |-> resultStatus,
                      reason |-> capitalizeReason(runs[i].reason),
                      message |-> uploadMessage], historyLimit)
     /\ savePending' = savePending + 1
     /\ running' = FALSE
     /\ emitted' = <<"status", "history">>
     /\ lastStatus' = statusOf(state', paused, running', lastRun',
                               lastResult', history')
     /\ runs' = [runs EXCEPT ![i] = DoneRun]
     /\ startPc' = IF runs[i].via = "start" THEN "done" ELSE startPc

\* the try block after uploadTimetable has resolved with res, then finally
runSyncResolved(i, res) ==
  LET resultStatus == IF res.skipped THEN "skipped" ELSE "success"
      uploadMessage == IF res.message # Undefined THEN res.message
                       ELSE res.reason
  IN /\ lastRun' = runs[i].timestamp
     /\ lastResult' = [status |-> resultStatus,
                       payloadHash |-> res.payloadHash,
                       reason |-> IF res.reason # Undefined THEN res.reason
                                  ELSE runs[i].reason,
                       message |-> uploadMessage]
     /\ state' = "idle"
     /\ history' = pushHistory(history,
                     [timestamp |-> runs[i].timestamp,
                      status |-> resultStatus,
                      reason |-> capitalizeReason(runs[i].reason),
                      message |-> uploadMessage], historyLimit)
     /\ savePending' = savePending + 1
     /\ running' = FALSE
     /\ emitted' = <<"history", "status">>
     /\ lastStatus' = statusOf(state', paused, running', lastRun',
                               lastResult', history')
     /\ runs' = [runs EXCEPT ![i] = DoneRun]
     /\ startPc' = IF runs[i].via = "start" THEN "done" ELSE startPc

\* the catch block with the finally block left out: running stays true
runSyncRejectedNoFinally(i, message) ==
  /\ lastRun' = runs[i].timestamp
  /\ lastResult' = [status |-> "error", payloadHash |-> "none",
                    reason |-> Undefined, message |-> message]
  /\ state' = "error"
  /\ history' = pushHistory(history,
                  [timestamp |-> runs[i].timestamp,
                   status |-> "error",
                   reason |-> capitalizeReason(runs[i].reason),
                   message |-> message], historyLimit)
  /\ savePending' = savePending + 1
  /\ running' = running
  /\ emitted' = <<"history">>
  /\ UNCHANGED lastStatus
  /\ runs' = [runs EXCEPT ![i] = DoneRun]
  /\ startPc' = IF runs[i].via = "start" THEN "done" ELSE startPc

\* the catch block after generateTimetable or uploadTimetable has thrown, then
\* finally
runSyncRejected(i, message) ==
  /\ lastRun' = runs[i].timestamp
  /\ lastResult' = [status |-> "error", payloadHash |-> "none",
                    reason |-> Undefined, message |-> message]
  /\ state' = "error"
  /\ history' = pushHistory(history,
                  [timestamp |-> runs[i].timestamp,
                   status |-> "error",
                   reason |-> capitalizeReason(runs[i].reason),
                   message |-> message], historyLimit)
  /\ savePending' = savePending + 1
  /\ running' = FALSE
  /\ emitted' = <<"history", "status">>
  /\ lastStatus' = statusOf(state', paused, running', lastRun', lastResult',
                            history')
  /\ runs' = [runs EXCEPT ![i] = DoneRun]
  /\ startPc' = IF runs[i].via = "start" THEN "done" ELSE startPc

\* what the end of a run never touches
EndFrame == UNCHANGED <<paused, watcher, timer, pendingReason, cfg, desk, liveTimers,
                        openWatchers, disk, stopPc, pausePc>>

\* what an intermediate step of the pipeline never touches
StepFrame == UNCHANGED <<svc, cfg, desk, liveTimers, openWatchers, disk, savePending,
                         startPc, stopPc, pausePc>>

\* the payload fingerprint: sha256 over the three export files, whose content
\* does not change between the runs of one behaviour
combinedHash == "hash"

\* a remote that answers 200 or an error as it likes and stores nothing
AnyRemote == [dedup |-> FALSE, hashes |-> {}]

\* a remote that stores the fingerprint of every upload it accepts and rejects
\* a repeated one; nothing is stored yet
DedupRemote == [dedup |-> TRUE, hashes |-> {}]

\* what the remote that rejects repeated fingerprints answers to an upload
remoteAnswer == IF combinedHash \in remote.hashes THEN "skipped" ELSE "ok"

\* uploadTimetable sends the request: fetch(endpoint, Bearer token)
sendUpload(i, token) ==
  /\ runs[i].sent < MaxAttempts
  /\ runs' = [runs EXCEPT ![i].phase = "fetch", ![i].token = token,
                          ![i].sent = @ + 1]

\* runSync that goes on to uploadTimetable when generateTimetable has thrown
ExportDoneIgnoresFailure(i, ok) ==
  /\ i \in InFlight
  /\ runs[i].phase = "export"
  /\ runs' = [runs EXCEPT ![i].phase = "read"]
  /\ emitted' = << >>
  /\ UNCHANGED lastStatus
  /\ UNCHANGED <<tokenCache, remote>>
  /\ StepFrame

\* generateTimetable settles
ExportDone(i, ok) ==
  /\ i \in InFlight
  /\ runs[i].phase = "export"
  /\ IF ok
       THEN /\ runs' = [runs EXCEPT ![i].phase = "read"]
            /\ emitted' = << >>
            /\ UNCHANGED lastStatus
            /\ UNCHANGED <<tokenCache, remote>>
            /\ StepFrame
       ELSE /\ runSyncRejected(i, ExportFailed)
            /\ UNCHANGED <<tokenCache, remote>>
            /\ EndFrame

\* uploadTimetable that remembers the fingerprint of the last upload and
\* reports skipped by itself when the content has not changed
FilesReadLocalDedup(i, ok) ==
  /\ i \in InFlight
  /\ runs[i].phase = "read"
  /\ UNCHANGED <<tokenCache, remote>>
  /\ IF ok
       THEN IF lastResult.payloadHash = combinedHash
              THEN /\ runSyncResolved(i, [skipped |-> TRUE,
                                          reason |-> DuplicateMessage,
                                          message |-> DuplicateMessage,
                                          payloadHash |-> combinedHash])
                   /\ EndFrame
              ELSE /\ IF apiToken = "explicit"
                        THEN sendUpload(i, "explicit")
                        ELSE runs' = [runs EXCEPT ![i].phase = "cache"]
                   /\ emitted' = << >>
                   /\ UNCHANGED lastStatus
                   /\ StepFrame
       ELSE /\ runSyncRejected(i, ReadFailed)
            /\ EndFrame

\* uploadTimetable: the three export files have been read (or one read failed)
FilesRead(i, ok) ==
  /\ i \in InFlight
  /\ runs[i].phase = "read"
  /\ UNCHANGED <<tokenCache, remote>>
  /\ IF ok
       THEN /\ IF apiToken = "explicit"
                 THEN sendUpload(i, "explicit")
                 ELSE runs' = [runs EXCEPT ![i].phase = "cache"]
            /\ emitted' = << >>
            /\ UNCHANGED lastStatus
            /\ StepFrame
       ELSE /\ runSyncRejected(i, ReadFailed)
            /\ EndFrame

\* getCachedToken that returns whatever the cache file holds
getCachedTokenRaw(cache) == cache

\* getCachedToken: the token in the cache file; a missing, unreadable or
\* unparsable file, or one without a token, gives null
getCachedToken(cache) == IF cache \in {"none", "corrupt"} THEN "none" ELSE cache

\* CacheRead that throws when no token can be resolved
CacheReadNoTokenThrows(i) ==
  /\ i \in InFlight
  /\ runs[i].phase = "cache"
  /\ UNCHANGED <<tokenCache, remote>>
  /\ IF getCachedToken(tokenCache) # "none"
       THEN /\ sendUpload(i, getCachedToken(tokenCache))
            /\ emitted' = << >>
            /\ UNCHANGED lastStatus
            /\ StepFrame
       ELSE IF loginCreds
         THEN /\ runs' = [runs EXCEPT ![i].phase = "login"]
              /\ emitted' = << >>
              /\ UNCHANGED lastStatus
              /\ StepFrame
         ELSE /\ runSyncRejected(i, NoToken)
              /\ EndFrame

\* uploadTimetable: getCachedToken has settled; without a cached token
\* loginForToken is called
CacheRead(i) ==
  /\ i \in InFlight
  /\ runs[i].phase = "cache"
  /\ UNCHANGED <<tokenCache, remote>>
  /\ IF getCachedToken(tokenCache) # "none"
       THEN /\ sendUpload(i, getCachedToken(tokenCache))
            /\ emitted' = << >>
            /\ UNCHANGED lastStatus
            /\ StepFrame
       ELSE IF loginCreds
         THEN /\ runs' = [runs EXCEPT ![i].phase = "login"]
              /\ emitted' = << >>
              /\ UNCHANGED lastStatus
              /\ StepFrame
         ELSE /\ runSyncResolved(i, [skipped |-> TRUE, reason |-> NoToken,
                                     message |-> Undefined,
                                     payloadHash |-> "none"])
              /\ EndFrame

\* loginForToken: the login request has settled; a token is cached first
LoginDone(i, resp, writeOk) ==
  /\ i \in InFlight
  /\ runs[i].phase = "login"
  /\ CASE resp = "token" /\ writeOk ->
            /\ tokenCache' = "fresh"
            /\ UNCHANGED remote
            /\ sendUpload(i, "fresh")
            /\ emitted' = << >>
            /\ UNCHANGED lastStatus
            /\ StepFrame
       [] resp = "token" /\ ~writeOk ->
            /\ runSyncRejected(i, CacheWriteFailed)
            /\ UNCHANGED <<tokenCache, remote>>
            /\ EndFrame
       [] resp = "empty" ->
            /\ runSyncResolved(i, [skipped |-> TRUE, reason |-> NoToken,
                                   message |-> Undefined,
                                   payloadHash |-> "none"])
            /\ UNCHANGED <<tokenCache, remote>>
            /\ EndFrame
       [] OTHER ->
            /\ runSyncRejected(i, LoginFailed)
            /\ UNCHANGED <<tokenCache, remote>>
            /\ EndFrame

\* uploadTimetable that clears the cache and retries on every 401, whatever
\* the token was
FetchDoneRetriesAlways(i, resp, clearOk) ==
  /\ i \in InFlight
  /\ runs[i].phase = "fetch"
  /\ remote.dedup => resp = remoteAnswer
  /\ remote' = IF remote.dedup /\ resp = "ok"
                 THEN [remote EXCEPT !.hashes = @ \cup {combinedHash}]
                 ELSE remote
  /\ CASE resp = "401" ->
            /\ runs[i].sent < MaxAttempts
            /\ tokenCache' = IF clearOk THEN "none" ELSE tokenCache
            /\ runs' = [runs EXCEPT ![i].phase = "read"]
            /\ emitted' = << >>
            /\ UNCHANGED lastStatus
            /\ StepFrame
       [] resp = "500" ->
            /\ runSyncRejected(i, UploadFailed500)
            /\ UNCHANGED tokenCache
            /\ EndFrame
       [] resp = "skipped" ->
            /\ runSyncResolved(i, [skipped |-> TRUE,
                                   reason |-> DuplicateMessage,
                                   message |-> DuplicateMessage,
                                   payloadHash |-> "hash"])
            /\ UNCHANGED tokenCache
            /\ EndFrame
       [] OTHER ->
            /\ runSyncResolved(i, [skipped |-> FALSE, reason |-> Undefined,
                                   message |-> Undefined,
                                   payloadHash |-> "hash"])
            /\ UNCHANGED tokenCache
            /\ EndFrame

\* uploadTimetable: the upload request has settled with resp; on 401 without an
\* explicit token the cache is cleared (clearOk) and uploadTimetable calls
\* itself
FetchDone(i, resp, clearOk) ==
  /\ i \in InFlight
  /\ runs[i].phase = "fetch"
  /\ remote.dedup => resp = remoteAnswer
  /\ remote' = IF remote.dedup /\ resp = "ok"
                 THEN [remote EXCEPT !.hashes = @ \cup {combinedHash}]
                 ELSE remote
  /\ CASE resp = "401" /\ apiToken # "explicit" ->
            /\ runs[i].sent < MaxAttempts
            /\ tokenCache' = IF clearOk THEN "none" ELSE tokenCache
            /\ runs' = [runs EXCEPT ![i].phase = "read"]
            /\ emitted' = << >>
            /\ UNCHANGED lastStatus
            /\ StepFrame
       [] resp = "401" /\ apiToken = "explicit" ->
            /\ runSyncRejected(i, UploadFailed401)
            /\ UNCHANGED tokenCache
            /\ EndFrame
       [] resp = "500" ->
            /\ runSyncRejected(i, UploadFailed500)
            /\ UNCHANGED tokenCache
            /\ EndFrame
       [] resp = "skipped" ->
            /\ runSyncResolved(i, [skipped |-> TRUE,
                                   reason |-> DuplicateMessage,
                                   message |-> DuplicateMessage,
                                   payloadHash |-> "hash"])
            /\ UNCHANGED tokenCache
            /\ EndFrame
       [] OTHER ->
            /\ runSyncResolved(i, [skipped |-> FALSE, reason |-> Undefined,
                                   message |-> Undefined,
                                   payloadHash |-> "hash"])
            /\ UNCHANGED tokenCache
            /\ EndFrame

\* saveHistory without the try/catch: a failed write reaches runSync's catch
SaveHistoryRaises(ok) ==
  /\ savePending > 0
  /\ savePending' = savePending - 1
  /\ disk' = IF ok THEN [kind |-> "array", list |-> history] ELSE disk
  /\ state' = IF ok THEN state ELSE "error"
  /\ lastResult' = IF ok THEN lastResult
                   ELSE [status |-> "error", payloadHash |-> "none",
                         reason |-> Undefined, message |-> CacheWriteFailed]
  /\ emitted' = << >>
  /\ UNCHANGED lastStatus
  /\ UNCHANGED <<running, paused, lastRun, history, watcher, timer,
                 pendingReason, cfg, desk, liveTimers, openWatchers, tokenCache,
                 remote, ctl>>

\* saveHistory: mkdir has settled and the current list is written (or not)
SaveHistory(ok) ==
  /\ savePending > 0
  /\ savePending' = savePending - 1
  /\ disk' = IF ok THEN [kind |-> "array", list |-> history] ELSE disk
  /\ emitted' = << >>
  /\ UNCHANGED lastStatus
  /\ UNCHANGED <<svc, cfg, desk, liveTimers, openWatchers, tokenCache,
                 remote, ctl>>

\* ------------------------------------------------------------- the watcher
\* setupWatcher, entered with paused = p
setupWatcher(p) ==
  IF watcher # 0 \/ p \/ ~hasWatchFiles
    THEN UNCHANGED <<watcher, openWatchers>>
    ELSE /\ watcher' = NewWatcher
         /\ openWatchers' = openWatchers \cup {NewWatcher}

\* ---------------------------------------------------------------- start()
\* start() is called: loadHistory starts reading the history file
StartCall ==
  /\ startPc = "init"
  /\ startPc' = "loading"
  /\ emitted' = << >>
  /\ UNCHANGED lastStatus
  /\ UNCHANGED <<svc, cfg, desk, env, stopPc, pausePc, runs>>

\* start() that hands its initial run to the debounce timer
StartLoadedDebounced ==
  /\ startPc = "loading"
  /\ startPc' = "done"
  /\ history' = loadHistory(history, disk, historyLimit)
  /\ setupWatcher(paused)
  /\ pendingReason' = <<StartupReason>>
  /\ timer' = NewTimer(liveTimers \ {timer})
  /\ liveTimers' = (liveTimers \ {timer}) \cup {NewTimer(liveTimers \ {timer})}
  /\ emitted' = << >>
  /\ UNCHANGED lastStatus
  /\ UNCHANGED <<state, running, paused, lastRun, lastResult, cfg, desk, disk,
                 tokenCache, remote, savePending, stopPc, pausePc, runs>>

\* the read has settled: loadHistory assigns, setupWatcher, runSync begins
StartLoaded ==
  /\ startPc = "loading"
  /\ startPc' = "sync"
  /\ history' = loadHistory(history, disk, historyLimit)
  /\ setupWatcher(paused)
  /\ runSyncBegin(StartupReason, "start", FALSE)
  /\ UNCHANGED <<paused, lastRun, lastResult, timer, pendingReason, cfg, desk,
                 liveTimers, disk, tokenCache, remote, savePending, stopPc, pausePc>>

\* ----------------------------------------------------------------- stop()
\* A watcher stops delivering events when close() is called on it; the promise
\* of close() settles later.
\* stop() after closeWatcher without the emitStatus call
stopTailSilent ==
  /\ liveTimers' = liveTimers \ {timer}
  /\ timer' = 0
  /\ state' = "stopped"
  /\ emitted' = << >>
  /\ UNCHANGED lastStatus

\* stop() after closeWatcher: clear the timer, state, emitStatus
stopTail ==
  /\ liveTimers' = liveTimers \ {timer}
  /\ timer' = 0
  /\ state' = "stopped"
  /\ emitted' = <<"status">>
  /\ lastStatus' = statusOf("stopped", paused, running, lastRun, lastResult,
                            history)

StopCall ==
  /\ startPc # "init"
  /\ stopPc = "idle"
  /\ runs' = [i \in 1..Len(runs) |->
               IF i \in InFlight THEN [runs[i] EXCEPT !.stopSeen = TRUE]
               ELSE runs[i]]
  /\ IF watcher = 0
       THEN /\ stopTail
            /\ stopPc' = "done"
            /\ UNCHANGED <<watcher, openWatchers>>
       ELSE /\ stopPc' = "closing"
            /\ openWatchers' = openWatchers \ {watcher}
            /\ emitted' = << >>
            /\ UNCHANGED lastStatus
            /\ UNCHANGED <<watcher, liveTimers, timer, state>>
  /\ UNCHANGED <<running, paused, lastRun, lastResult, history, pendingReason,
                 cfg, desk, disk, tokenCache, remote, savePending, startPc, pausePc>>

\* watcher.close() has settled for stop()
StopClosed ==
  /\ stopPc = "closing"
  /\ watcher' = 0
  /\ stopTail
  /\ stopPc' = "done"
  /\ UNCHANGED <<running, paused, lastRun, lastResult, history, pendingReason,
                 cfg, desk, openWatchers, disk, tokenCache, remote, savePending, startPc,
                 pausePc, runs>>

\* ------------------------------------------------------- pause() / resume()
\* pause() that clears the timeout and the pending reason, as stop() clears
\* the timeout
PauseCallDropsPending ==
  /\ startPc # "init"
  /\ pausePc = "idle"
  /\ paused' = TRUE
  /\ liveTimers' = liveTimers \ {timer}
  /\ timer' = 0
  /\ pendingReason' = << >>
  /\ IF watcher = 0
       THEN /\ emitted' = <<"status">>
            /\ lastStatus' = statusOf(state, TRUE, running, lastRun,
                                      lastResult, history)
            /\ UNCHANGED <<pausePc, openWatchers>>
       ELSE /\ pausePc' = "closing"
            /\ openWatchers' = openWatchers \ {watcher}
            /\ emitted' = << >>
            /\ UNCHANGED lastStatus
  /\ UNCHANGED <<state, running, lastRun, lastResult, history, watcher, cfg, desk,
                 disk, tokenCache, remote, savePending, startPc, stopPc, runs>>

\* pause()
PauseCall ==
  /\ startPc # "init"
  /\ pausePc = "idle"
  /\ paused' = TRUE
  /\ IF watcher = 0
       THEN /\ emitted' = <<"status">>
            /\ lastStatus' = statusOf(state, TRUE, running, lastRun,
                                      lastResult, history)
            /\ UNCHANGED <<pausePc, openWatchers>>
       ELSE /\ pausePc' = "closing"
            /\ openWatchers' = openWatchers \ {watcher}
            /\ emitted' = << >>
            /\ UNCHANGED lastStatus
  /\ UNCHANGED <<state, running, lastRun, lastResult, history, watcher, timer,
                 pendingReason, cfg, desk, liveTimers, disk, tokenCache, remote, savePending,
                 startPc, stopPc, runs>>

\* watcher.close() has settled for pause()
PauseClosed ==
  /\ pausePc = "closing"
  /\ watcher' = 0
  /\ emitted' = <<"status">>
  /\ lastStatus' = getStatus
  /\ pausePc' = "idle"
  /\ UNCHANGED <<state, running, paused, lastRun, lastResult, history, timer,
                 pendingReason, cfg, desk, env, startPc, stopPc, runs>>

\* resume()
Resume ==
  /\ startPc # "init"
  /\ IF ~paused
       THEN /\ emitted' = << >>
            /\ UNCHANGED lastStatus
            /\ UNCHANGED <<paused, watcher, openWatchers>>
       ELSE /\ paused' = FALSE
            /\ setupWatcher(FALSE)
            /\ emitted' = <<"status">>
            /\ lastStatus' = statusOf(state, FALSE, running, lastRun,
                                      lastResult, history)
  /\ UNCHANGED <<state, running, lastRun, lastResult, history, timer,
                 pendingReason, cfg, desk, liveTimers, disk, tokenCache, remote, savePending,
                 ctl>>

\* ------------------------------------------------------------ specification
\* History files: missing or unparsable, JSON that is not an array, or the list
\* written by an earlier session
HistoryFiles ==
  {[kind |-> "array", list |-> l] : l \in PersistedLists}
    \cup {[kind |-> "other", list |-> << >>], [kind |-> "absent", list |-> << >>]}

\* a service used on its own: no controller, no settings store
Standalone == desk = << >>

\* the constructor
Constructed ==
  /\ state = "idle"
  /\ running = FALSE
  /\ paused = FALSE
  /\ lastRun = 0
  /\ lastResult = NoResult
  /\ history = << >>
  /\ watcher = 0
  /\ timer = 0
  /\ pendingReason = << >>
  /\ liveTimers = {}
  /\ openWatchers = {}
  /\ savePending = 0
  /\ startPc = "init"
  /\ stopPc = "idle"
  /\ pausePc = "idle"
  /\ runs = << >>
  /\ emitted = << >>
  /\ lastStatus = NoStatus

\* Spec: the service with a watch list, an explicit API token and a history
\* limit of 1, a remote that answers 200 or 500, and no history file.  Every interleaving of the calls,
\* the watcher events, the timeouts and the pipeline steps.
Init ==
  /\ Constructed
  /\ Standalone
  /\ historyLimit = 1
  /\ hasWatchFiles = TRUE
  /\ runBudget = MaxRuns
  /\ apiToken = "explicit"
  /\ loginCreds = FALSE
  /\ disk = [kind |-> "absent", list |-> << >>]
  /\ tokenCache = "none"
  /\ remote = AnyRemote

Trigger == \E r \in ManualReasons : TriggerSync(r)
Watch == \E w \in openWatchers : \E r \in FileReasons : WatcherEvent(w, r)
Unlink == \E w \in openWatchers : WatcherUnlink(w)
Fire == \E h \in liveTimers : TimerFire(h)
ExportOk == \E i \in InFlight : ExportDone(i, TRUE)
ReadOk == \E i \in InFlight : FilesRead(i, TRUE)
FetchPlain ==
  \E i \in InFlight : \E resp \in {"ok", "500"} : FetchDone(i, resp, TRUE)

Next ==
  \/ StartCall
  \/ StartLoaded
  \/ Trigger
  \/ Watch
  \/ Unlink
  \/ Fire
  \/ ExportOk
  \/ ReadOk
  \/ FetchPlain
  \/ StopCall
  \/ StopClosed
  \/ PauseCall
  \/ PauseClosed
  \/ Resume

Spec == Init /\ [][Next]_vars

\* HistorySpec: the service without a watch list, over every history limit and
\* history file, with the writes of saveHistory.
HistoryInit ==
  /\ Constructed
  /\ Standalone
  /\ historyLimit \in 1..MaxHistoryLimit
  /\ hasWatchFiles = FALSE
  /\ runBudget = MaxRuns
  /\ apiToken = "explicit"
  /\ loginCreds = FALSE
  /\ disk \in HistoryFiles
  /\ tokenCache = "none"
  /\ remote = AnyRemote

Save == \E ok \in BOOLEAN : SaveHistory(ok)

HistoryNext ==
  \/ StartCall
  \/ StartLoaded
  \/ Trigger
  \/ Fire
  \/ ExportOk
  \/ ReadOk
  \/ FetchPlain
  \/ Save
  \/ StopCall
  \/ PauseCall
  \/ Resume

HistorySpec == HistoryInit /\ [][HistoryNext]_vars

\* UploadSpec: the pipeline in full, over every token configuration (an
\* explicit token alone, or next to login credentials and a cached token), every
\* outcome of the export, the file reads, the login and the cache files, and
\* every answer of the remote; the runs are started by start() and by
\* triggerSync() called while running is false, which includes the time start()
\* spends loading the history, so that two runs can overlap.
UploadInit ==
  /\ Constructed
  /\ Standalone
  /\ historyLimit = 1
  /\ hasWatchFiles = FALSE
  /\ runBudget = MaxRuns
  /\ disk = [kind |-> "absent", list |-> << >>]
  /\ remote = AnyRemote
  /\ \/ /\ apiToken = "explicit"
        /\ \/ loginCreds = FALSE /\ tokenCache = "none"
           \/ loginCreds = TRUE /\ tokenCache = "stale"
     \/ /\ apiToken = "none"
        /\ loginCreds \in BOOLEAN
        /\ tokenCache \in {"none", "stale", "corrupt"}

\* triggerSync called while the status shows no run in progress
TriggerIdle == ~running /\ Trigger

Export == \E i \in InFlight : \E ok \in BOOLEAN : ExportDone(i, ok)
Read == \E i \in InFlight : \E ok \in BOOLEAN : FilesRead(i, ok)
Cache == \E i \in InFlight : CacheRead(i)
Login ==
  \E i \in InFlight : \E resp \in {"token", "empty", "fail"} :
    \E ok \in BOOLEAN : LoginDone(i, resp, ok)
Fetch ==
  \E i \in InFlight : \E resp \in {"ok", "skipped", "401", "500"} :
    \E ok \in BOOLEAN : FetchDone(i, resp, ok)

UploadNext ==
  \/ StartCall
  \/ StartLoaded
  \/ TriggerIdle
  \/ Export
  \/ Read
  \/ Cache
  \/ Login
  \/ Fetch

UploadSpec == UploadInit /\ [][UploadNext]_vars

\* the pipeline steps are eventually taken: the adapters terminate
UploadLiveSpec ==
  /\ UploadSpec
  /\ WF_vars(Export \/ Read \/ Cache \/ Login \/ Fetch)

\* OverlapSpec: start() and triggerSync() with an explicit token and a remote
\* that answers 200 or 500, no watch list, and one more run than the other
\* specifications follow, so that a trigger can arrive after one of two
\* overlapping runs has finished.
OverlapInit ==
  /\ Constructed
  /\ Standalone
  /\ historyLimit = 1
  /\ hasWatchFiles = FALSE
  /\ runBudget = MaxRuns + 1
  /\ apiToken = "explicit"
  /\ loginCreds = FALSE
  /\ disk = [kind |-> "absent", list |-> << >>]
  /\ tokenCache = "none"
  /\ remote = AnyRemote

OverlapNext ==
  \/ StartCall
  \/ StartLoaded
  \/ Trigger
  \/ Fire
  \/ ExportOk
  \/ ReadOk
  \/ FetchPlain

OverlapSpec == OverlapInit /\ [][OverlapNext]_vars

\* QueueLiveSpec: the service of Spec without stop(): start(), pause(),
\* resume(), triggers and watcher events, the timeouts and a pipeline that
\* answers 200 or 500.  Triggers cease: one is issued only while a run is left
\* for it to start.  The adapters terminate, a paused service is resumed, and
\* the timeout fires at some moment at which the service is neither paused nor
\* running.
RunLeft == Len(runs) + (IF startPc = "loading" THEN 1 ELSE 0) < runBudget
TriggerWhileRunLeft == RunLeft /\ Trigger
WatchWhileRunLeft == RunLeft /\ Watch
FireIdle == ~paused /\ ~running /\ Fire

QueueLiveNext ==
  \/ StartCall
  \/ StartLoaded
  \/ TriggerWhileRunLeft
  \/ WatchWhileRunLeft
  \/ Fire
  \/ ExportOk
  \/ ReadOk
  \/ FetchPlain
  \/ PauseCall
  \/ PauseClosed
  \/ Resume

QueueLiveSpec ==
  /\ Init /\ [][QueueLiveNext]_vars
  /\ WF_vars(ExportOk \/ ReadOk \/ FetchPlain)
  /\ WF_vars(Resume)
  /\ SF_vars(FireIdle)

\* WatchSpec: the service of Spec on which stop() is never called: start(),
\* pause(), resume(), triggers, every watcher event, the timeouts and a
\* pipeline that answers 200 or 500, in every interleaving.
WatchNext ==
  \/ StartCall
  \/ StartLoaded
  \/ Trigger
  \/ Watch
  \/ Unlink
  \/ Fire
  \/ ExportOk
  \/ ReadOk
  \/ FetchPlain
  \/ PauseCall
  \/ PauseClosed
  \/ Resume

WatchSpec == Init /\ [][WatchNext]_vars

\* StartSpec: start() over every history file, every history limit, with and
\* without a watch list, while triggerSync(), pause() and resume() are called
\* at any moment, the loading of the history included; the pipeline answers
\* 200 or 500.
StartInit ==
  /\ Constructed
  /\ Standalone
  /\ historyLimit \in 1..MaxHistoryLimit
  /\ hasWatchFiles \in BOOLEAN
  /\ runBudget = MaxRuns
  /\ apiToken = "explicit"
  /\ loginCreds = FALSE
  /\ disk \in HistoryFiles
  /\ tokenCache = "none"
  /\ remote = AnyRemote

StartNext ==
  \/ StartCall
  \/ StartLoaded
  \/ Trigger
  \/ ExportOk
  \/ ReadOk
  \/ FetchPlain
  \/ PauseCall
  \/ PauseClosed
  \/ Resume

StartSpec == StartInit /\ [][StartNext]_vars

\* DedupSpec: consecutive runs over unchanged content against a remote that
\* rejects a repeated fingerprint: start(), then triggerSync() once start() has
\* returned, over every history limit and every token configuration; the
\* export, the file reads and the cache write succeed and the login request
\* answers 200, with or without a token.
DedupInit ==
  /\ Constructed
  /\ Standalone
  /\ historyLimit \in 1..MaxHistoryLimit
  /\ hasWatchFiles = FALSE
  /\ runBudget = MaxRuns
  /\ disk = [kind |-> "absent", list |-> << >>]
  /\ remote = DedupRemote
  /\ \/ /\ apiToken = "explicit"
        /\ loginCreds = FALSE
        /\ tokenCache = "none"
     \/ /\ apiToken = "none"
        /\ loginCreds \in BOOLEAN
        /\ tokenCache \in {"none", "stale"}

TriggerAfterStart == startPc = "done" /\ Trigger
LoginAnswered ==
  \E i \in InFlight : \E resp \in {"token", "empty"} : LoginDone(i, resp, TRUE)
FetchAnswered ==
  \E i \in InFlight : \E resp \in {"ok", "skipped"} : FetchDone(i, resp, TRUE)

DedupNext ==
  \/ StartCall
  \/ StartLoaded
  \/ TriggerAfterStart
  \/ ExportOk
  \/ ReadOk
  \/ Cache
  \/ LoginAnswered
  \/ FetchAnswered

DedupSpec == DedupInit /\ [][DedupNext]_vars

\* DebounceSpec: the service of QueueLiveSpec without pause() and resume(),
\* started with any history limit, any history file and with or without
\* watched files.
\* Only the adapters are fair: nothing says when a timeout fires, so a
\* behaviour in which watcher events keep replacing the timeout is a
\* behaviour of this specification.
DebounceNext ==
  \/ StartCall
  \/ StartLoaded
  \/ TriggerWhileRunLeft
  \/ WatchWhileRunLeft
  \/ Fire
  \/ ExportOk
  \/ ReadOk
  \/ FetchPlain

DebounceSpec ==
  /\ StartInit /\ [][DebounceNext]_vars
  /\ WF_vars(ExportOk \/ ReadOk \/ FetchPlain)

\* ------------------------------------------ settings.ts (the SettingsStore)
\* A settings object keeps the fields the controller and the store look at:
\* baseDir, tfxFile, watchFiles, apiToken and login.password/login.remember.
\* A file name is a string; an undefined tfxFile is the value UndefinedFile,
\* and a watchFiles that is undefined or not an array is the empty list.
UndefinedFile == "<undefined>"
NullToken == "<null>"
LEGACY_WATCH_PLACEHOLDERS ==
  {"Timetable.tfx", "Year 7.sfx", "Year 8.sfx", "Year 9.sfx", "Year 10.sfx",
   "Year 11.sfx", "Year 12.sfx"}

\* sanitizeWatchFiles(list)
sanitizeWatchFiles(list) ==
  LET Kept(value) == value # "" /\ value \notin LEGACY_WATCH_PLACEHOLDERS
  IN SelectSeq(list, Kept)

\* list.includes(value)
includes(list, value) == \E k \in 1..Len(list) : list[k] = value

\* !value for a file name
falsy(value) == value \in {UndefinedFile, ""}

\* getDefaultSettings(userDataDir)
getDefaultSettings ==
  [baseDir |-> "", tfxFile |-> UndefinedFile, watchFiles |-> << >>,
   apiToken |-> NullToken, password |-> "", remember |-> FALSE]

\* { ...base, ...patch }: the fields of patch override those of base
spread(base, patch) ==
  [f \in DOMAIN base \cup DOMAIN patch |->
     IF f \in DOMAIN patch THEN patch[f] ELSE base[f]]

\* settings.json: absent, unparsable, or a JSON object
AbsentFile == [kind |-> "absent", content |-> << >>]
UnparsableFile == [kind |-> "unparsable", content |-> << >>]
ObjectFile(content) == [kind |-> "object", content |-> content]

\* SettingsStore.load(): the settings it leaves in this.settings
loadSettings(settings, file) ==
  IF file.kind # "object"
    THEN settings
    ELSE LET merged == spread(getDefaultSettings, file.content)
             watchFiles == sanitizeWatchFiles(merged.watchFiles)
             tfxFile ==
               IF falsy(merged.tfxFile) /\ Len(watchFiles) > 0
                 THEN watchFiles[1]
                 ELSE IF ~falsy(merged.tfxFile)
                           /\ ~includes(watchFiles, merged.tfxFile)
                        THEN UndefinedFile
                        ELSE merged.tfxFile
         IN [merged EXCEPT !.watchFiles = watchFiles, !.tfxFile = tfxFile]

\* SettingsStore.load(): the content of settings.json it leaves (the catch
\* branch saves this.settings)
loadFile(settings, file) ==
  IF file.kind # "object" THEN ObjectFile(settings) ELSE file

\* SettingsStore.update(patch): the object it hands to save()
updateSettings(settings, patch) ==
  LET next == spread(settings, patch)
      watchFiles == sanitizeWatchFiles(next.watchFiles)
      tfxFile ==
        IF Len(watchFiles) = 0
          THEN UndefinedFile
          ELSE IF falsy(next.tfxFile) \/ ~includes(watchFiles, next.tfxFile)
                 THEN watchFiles[1]
                 ELSE next.tfxFile
  IN [next EXCEPT !.watchFiles = watchFiles, !.tfxFile = tfxFile]

\* --------------------------------- syncController.ts (the SyncController)
\* desk is a record: variant (which of the two versions of syncController.ts
\* runs: "plain" restarts the service on every settings change, "ensure" has
\* canRun/ensureServiceState), inited (the position of init()), issued (the
\* calls made after init()), controller
\* (service: 0 = null, otherwise an index into services; currentSettings;
\* latestStatus), services, store (settings: this.settings; file: the content
\* of settings.json), calls (one record per slot), forwarded (the events the
\* controller emitted in the last step), returned (the calls that returned in
\* the last step, with their outcome).  The core services of the controller
\* are kept by what the controller can tell of them: the position of start(),
\* the watcher, running, state and whether the controller's listeners are
\* attached, and stopped (a stop() of it has returned); a pipeline is one
\* step from its start to its end, and a watcher event starts one when none
\* is running.
MaxCalls == 2         \* controller calls issued after init() in one behaviour
MaxOverlap == 2       \* controller calls in progress at a time
Slots == 1..MaxOverlap

controller == desk.controller
services == desk.services
store == desk.store
calls == desk.calls
forwarded == desk.forwarded
returned == desk.returned

FreeCall == [op |-> "none", pc |-> "free", svc |-> 0, then |-> "none",
             settings |-> getDefaultSettings, remember |-> FALSE,
             warned |-> FALSE]

NoLatestStatus == [state |-> "none", paused |-> FALSE, running |-> FALSE]

\* service.getStatus(), as far as the controller reads it
svcStatus(sv) == [state |-> sv.state, paused |-> FALSE, running |-> sv.running]

\* the core service emits ev: the controller's listeners (startService) keep
\* the payload and emit the event again
Forward(d, i, ev) ==
  IF d.services[i].listeners
    THEN [d EXCEPT !.forwarded = Append(@, ev),
                   !.controller.latestStatus =
                      IF ev = "status" THEN svcStatus(d.services[i]) ELSE @]
    ELSE d

\* the core service's stop() once closeWatcher() has settled
serviceStopped(d, i) ==
  Forward([d EXCEPT !.services[i].watcher = "none",
                    !.services[i].state = "stopped",
                    !.services[i].stopped = TRUE], i, "status")

\* the call in slot c returns or throws
Return(d, c, result) ==
  [d EXCEPT !.calls[c] = FreeCall,
            !.returned = Append(@, [op |-> d.calls[c].op, result |-> result,
                                    warned |-> d.calls[c].warned]),
            !.inited = IF d.calls[c].op = "init" THEN "done" ELSE @]

\* startService from `new CoreSyncService(settings)` to `await start()`
createService(d, c, settings) ==
  [d EXCEPT !.services =
               Append(@, [hasWatch |-> Len(settings.watchFiles) > 0,
                          startPc |-> "loading", watcher |-> "none",
                          running |-> FALSE, state |-> "idle",
                          listeners |-> TRUE, stopped |-> FALSE]),
            !.controller.service = Len(d.services) + 1,
            !.calls[c].pc = "starting",
            !.calls[c].svc = Len(d.services) + 1,
            !.calls[c].settings = settings]

\* what follows once the controller holds no service, or has stopped its
\* service: startService creates the next one, ensureServiceState reports
\* why none runs, logout goes on to clear the cached token
afterRelease(d, c, then, settings) ==
  CASE then = "start" -> createService(d, c, settings)
    [] then = "ensure" ->
         Return([d EXCEPT !.controller.latestStatus =
                             [state |-> IF settings.apiToken # NullToken
                                          THEN "setup-required"
                                          ELSE "signed-out",
                              paused |-> TRUE, running |-> FALSE],
                          !.forwarded = @ \o <<"status", "history">>],
                c, "ok")
    [] then = "logout" ->
         [d EXCEPT !.calls[c].pc = "clearing", !.calls[c].svc = 0,
                   !.calls[c].settings = settings]

\* the statements after `await this.service.stop()`: removeAllListeners()
\* on whatever this.service is by now, and, in stopService and logout,
\* this.service = null
afterStop(d, c, then, settings) ==
  IF d.controller.service = 0
    THEN Return(d, c, "TypeError")
    ELSE LET d1 == [d EXCEPT
                      !.services[d.controller.service].listeners = FALSE]
         IN IF then = "start"
              THEN createService(d1, c, settings)
              ELSE afterRelease([d1 EXCEPT !.controller.service = 0],
                                c, then, settings)

\* `if (this.service) { await this.service.stop(); ... }` of startService,
\* stopService and logout: stop() awaits the watcher's close when the
\* service has a watcher
stopThen(d, c, then, settings) ==
  IF d.controller.service = 0
    THEN afterRelease(d, c, then, settings)
    ELSE IF d.services[d.controller.service].watcher = "none"
           THEN afterStop(serviceStopped(d, d.controller.service),
                          c, then, settings)
           ELSE [d EXCEPT
                   !.services[d.controller.service].watcher = "closing",
                   !.calls[c].pc = "stopping",
                   !.calls[c].svc = d.controller.service,
                   !.calls[c].then = then,
                   !.calls[c].settings = settings]

\* canRun(settings): "/data" is the base directory that exists
canRun(settings) ==
  /\ settings.apiToken # NullToken
  /\ settings.baseDir = "/data"
  /\ \E k \in 1..Len(settings.watchFiles) : settings.watchFiles[k] # ""

\* ensureServiceState(settings)
ensureServiceState(d, c, settings) ==
  IF canRun(settings)
    THEN stopThen(d, c, "start", settings)
    ELSE stopThen(d, c, "ensure", settings)

\* init() and updateSettings() after the settings are in place
applySettings(d, c, settings) ==
  IF d.variant = "ensure"
    THEN ensureServiceState(d, c, settings)
    ELSE stopThen(d, c, "start", settings)

\* the first statements of updateSettings(patch)
normalizePatch(patch) ==
  IF "watchFiles" \in DOMAIN patch
       /\ Len(patch.watchFiles) > 0
       /\ ("tfxFile" \notin DOMAIN patch \/ falsy(patch.tfxFile))
    THEN spread(patch, [tfxFile |-> patch.watchFiles[1]])
    ELSE patch

\* the values a step starts from: nothing emitted, nothing returned yet
Fresh == [desk EXCEPT !.forwarded = << >>, !.returned = << >>]

\* the core variables of the stand-alone service are not used
DeskFrame == UNCHANGED <<svc, cfg, ctl, emitted, lastStatus, liveTimers,
                         openWatchers, disk, remote, savePending>>

\* the slot a new call takes: the first free one
FreeSlot(c) ==
  /\ calls[c].pc = "free"
  /\ \A k \in Slots : k < c => calls[k].pc # "free"

\* the IPC handlers are registered once init() has returned; the calls that
\* follow are bounded by MaxCalls
CanCall == desk.inited = "done" /\ desk.issued < MaxCalls

\* controller.init() is called
InitCall(c) ==
  /\ desk.inited = "no"
  /\ FreeSlot(c)
  /\ desk' = [Fresh EXCEPT !.inited = "running",
                           !.calls[c].op = "init", !.calls[c].pc = "load"]
  /\ UNCHANGED tokenCache
  /\ DeskFrame

\* store.load() has settled for init()
InitLoaded(c) ==
  /\ calls[c].pc = "load"
  /\ LET loaded == loadSettings(store.settings, store.file)
         d == [Fresh EXCEPT !.store.settings = loaded,
                            !.store.file = loadFile(store.settings, store.file),
                            !.controller.currentSettings = loaded]
     IN desk' = applySettings(d, c, loaded)
  /\ UNCHANGED tokenCache
  /\ DeskFrame

\* controller.updateSettings(patch) is called: up to the file write of
\* store.update(), which has already replaced this.settings
UpdateCall(c, patch) ==
  /\ CanCall
  /\ FreeSlot(c)
  /\ desk' = [Fresh EXCEPT
                !.issued = @ + 1,
                !.store.settings = updateSettings(@, normalizePatch(patch)),
                !.calls[c].op = "update", !.calls[c].pc = "saving"]
  /\ UNCHANGED tokenCache
  /\ DeskFrame

\* store.update() has written settings.json and returns this.settings, for
\* updateSettings() and for logout()
Saved(c) ==
  /\ calls[c].pc = "saving"
  /\ LET d == [Fresh EXCEPT !.store.file = ObjectFile(store.settings),
                            !.controller.currentSettings = store.settings]
     IN desk' = IF calls[c].op = "logout"
                  THEN Return([d EXCEPT
                                 !.controller.latestStatus =
                                    [state |-> "signed-out", paused |-> TRUE,
                                     running |-> FALSE],
                                 !.forwarded = <<"status", "history">>],
                              c, "ok")
                  ELSE applySettings(d, c, store.settings)
  /\ UNCHANGED tokenCache
  /\ DeskFrame

\* watcher.close() has settled for the stop() a controller call awaits
StopSettled(c) ==
  /\ calls[c].pc = "stopping"
  /\ desk' = afterStop(serviceStopped(Fresh, calls[c].svc), c, calls[c].then,
                       calls[c].settings)
  /\ UNCHANGED tokenCache
  /\ DeskFrame

\* the Error login() throws: for empty credentials, or by the answer to the
\* login request (401, another failure status, or 200 without a token)
loginError(resp) ==
  CASE resp = "invalid" -> "Email and password are required."
    [] resp = "401" -> "Invalid credentials."
    [] resp = "empty" -> "Login failed: server did not return an access token."
    [] OTHER -> "Login failed"

\* controller.login(credentials) with an empty email or password
LoginInvalid ==
  /\ CanCall
  /\ desk' = [Fresh EXCEPT !.issued = @ + 1,
                           !.returned = <<[op |-> "login",
                                           result |-> loginError("invalid"),
                                           warned |-> FALSE]>>]
  /\ UNCHANGED tokenCache
  /\ DeskFrame

\* controller.login(credentials): the login request is sent
LoginCall(c, remember) ==
  /\ CanCall
  /\ FreeSlot(c)
  /\ desk' = [Fresh EXCEPT !.issued = @ + 1,
                           !.calls[c].op = "login", !.calls[c].pc = "login",
                           !.calls[c].remember = remember]
  /\ UNCHANGED tokenCache
  /\ DeskFrame

\* login() that signs the user out when the login request fails
LoginSettledClearsToken(c, resp) ==
  /\ calls[c].pc = "login"
  /\ IF resp = "token"
       THEN /\ tokenCache' = "fresh"
            /\ desk' = [Fresh EXCEPT
                          !.store.settings =
                             updateSettings(@,
                               [apiToken |-> "token",
                                password |-> IF calls[c].remember
                                               THEN "pw" ELSE "",
                                remember |-> calls[c].remember]),
                          !.calls[c].pc = "saving"]
       ELSE /\ UNCHANGED tokenCache
            /\ desk' = Return([Fresh EXCEPT
                                 !.store.settings.apiToken = NullToken,
                                 !.controller.currentSettings.apiToken =
                                    NullToken],
                              c, loginError(resp))
  /\ DeskFrame

\* loginForToken has settled for login(): with a token (which it has
\* cached), rejected (401, 500) or answered without a token
LoginSettled(c, resp) ==
  /\ calls[c].pc = "login"
  /\ IF resp = "token"
       THEN /\ tokenCache' = "fresh"
            /\ desk' = [Fresh EXCEPT
                          !.store.settings =
                             updateSettings(@,
                               [apiToken |-> "token",
                                password |-> IF calls[c].remember
                                               THEN "pw" ELSE "",
                                remember |-> calls[c].remember]),
                          !.calls[c].pc = "saving"]
       ELSE /\ UNCHANGED tokenCache
            /\ desk' = Return(Fresh, c, loginError(resp))
  /\ DeskFrame

\* controller.logout() is called
LogoutCall(c) ==
  /\ CanCall
  /\ FreeSlot(c)
  /\ desk' = stopThen([Fresh EXCEPT !.issued = @ + 1,
                                    !.calls[c].op = "logout"], c, "logout",
                      controller.currentSettings)
  /\ UNCHANGED tokenCache
  /\ DeskFrame

\* clearCachedToken(path) where fs.unlink succeeds or fails: the catch
\* ignores the failure, so the call never throws
clearCachedToken(cache, ok) ==
  [cache |-> IF ok THEN "none" ELSE cache, threw |-> FALSE]

\* clearCachedToken has settled for logout(), whose catch logs a warning:
\* up to the file write of store.update()
LogoutCleared(c, ok) ==
  /\ calls[c].pc = "clearing"
  /\ tokenCache' = clearCachedToken(tokenCache, ok).cache
  /\ desk' = [Fresh EXCEPT
                !.store.settings =
                   updateSettings(@, [apiToken |-> NullToken,
                                      password |-> "", remember |-> FALSE]),
                !.calls[c].pc = "saving",
                !.calls[c].warned = clearCachedToken(tokenCache, ok).threw]
  /\ DeskFrame

\* loadHistory() has settled in a core service's start(): setupWatcher(),
\* then runSync('Startup Sync') begins
ServiceLoaded(i) ==
  /\ services[i].startPc = "loading"
  /\ desk' = Forward([Fresh EXCEPT
                        !.services[i].startPc = "sync",
                        !.services[i].watcher =
                           IF services[i].hasWatch /\ @ = "none"
                             THEN "open" ELSE @,
                        !.services[i].running = TRUE,
                        !.services[i].state = "syncing"], i, "status")
  /\ UNCHANGED tokenCache
  /\ DeskFrame

\* a watcher event, and after the debounce window the start of a pipeline
ServiceWatch(i) ==
  /\ services[i].watcher = "open"
  /\ ~services[i].running
  /\ desk' = Forward([Fresh EXCEPT !.services[i].running = TRUE,
                                   !.services[i].state = "syncing"],
                     i, "status")
  /\ UNCHANGED tokenCache
  /\ DeskFrame

\* a pipeline of a core service ends; when it is the startup run, start()
\* returns and startService goes on with this.service.getStatus()
ServicePipelineDone(i, ok) ==
  /\ services[i].running
  /\ LET d1 == [Fresh EXCEPT
                  !.services[i].running = FALSE,
                  !.services[i].state = IF ok THEN "idle" ELSE "error",
                  !.services[i].startPc = IF @ = "sync" THEN "done" ELSE @]
         d2 == Forward(Forward(d1, i, "history"), i, "status")
         waiting == {c \in Slots : /\ calls[c].pc = "starting"
                                   /\ calls[c].svc = i
                                   /\ services[i].startPc = "sync"}
     IN desk' =
          IF waiting = {}
            THEN d2
            ELSE LET c == CHOOSE k \in waiting : TRUE
                 IN IF d2.controller.service = 0
                      THEN Return(d2, c, "TypeError")
                      ELSE Return(
                             [d2 EXCEPT !.controller.latestStatus =
                                svcStatus(d2.services[d2.controller.service])],
                             c, "ok")
  /\ UNCHANGED tokenCache
  /\ DeskFrame

\* ControllerSpec: the desktop application.  main.ts awaits controller.init()
\* before it registers the IPC handlers, so updateSettings(), login() and
\* logout() arrive after init() has returned, and from then on in any order
\* and overlapping.  settings.json is absent or holds a complete setup.
ConfiguredFile ==
  [baseDir |-> "/data", tfxFile |-> "a.tfx", watchFiles |-> <<"a.tfx">>,
   apiToken |-> "token", password |-> "", remember |-> FALSE]

ControllerPatches ==
  {[baseDir |-> "/data", watchFiles |-> <<"a.tfx">>], [watchFiles |-> << >>]}

ControllerInit ==
  /\ Constructed
  /\ historyLimit = 1
  /\ hasWatchFiles = TRUE
  /\ runBudget = MaxRuns
  /\ apiToken = "explicit"
  /\ loginCreds = FALSE
  /\ disk = [kind |-> "absent", list |-> << >>]
  /\ tokenCache = "stale"
  /\ remote = AnyRemote
  /\ \E variant \in {"plain", "ensure"} :
       \E file \in {AbsentFile, ObjectFile(ConfiguredFile)} :
         desk = [variant |-> variant,
                 inited |-> "no",
                 issued |-> 0,
                 controller |-> [service |-> 0,
                                 currentSettings |-> getDefaultSettings,
                                 latestStatus |-> NoLatestStatus],
                 services |-> << >>,
                 store |-> [settings |-> getDefaultSettings, file |-> file],
                 calls |-> [c \in Slots |-> FreeCall],
                 forwarded |-> << >>,
                 returned |-> << >>]

ControllerInitCall == \E c \in Slots : InitCall(c)
ControllerInitLoaded == \E c \in Slots : InitLoaded(c)
ControllerUpdate ==
  \E c \in Slots : \E patch \in ControllerPatches : UpdateCall(c, patch)
ControllerSaved == \E c \in Slots : Saved(c)
ControllerStopSettled == \E c \in Slots : StopSettled(c)
ControllerLogin == \E c \in Slots : \E remember \in BOOLEAN : LoginCall(c, remember)
ControllerLoginSettled ==
  \E c \in Slots : \E resp \in {"token", "401", "500", "empty"} :
    LoginSettled(c, resp)
ControllerLogout == \E c \in Slots : LogoutCall(c)
ControllerLogoutCleared == \E c \in Slots : \E ok \in BOOLEAN : LogoutCleared(c, ok)
ServiceStartLoaded == \E i \in 1..Len(services) : ServiceLoaded(i)
ServiceWatched == \E i \in 1..Len(services) : ServiceWatch(i)
ServicePipelineEnds ==
  \E i \in 1..Len(services) : \E ok \in BOOLEAN : ServicePipelineDone(i, ok)

ControllerNext ==
  \/ ControllerInitCall
  \/ ControllerInitLoaded
  \/ ControllerUpdate
  \/ ControllerSaved
  \/ ControllerStopSettled
  \/ LoginInvalid
  \/ ControllerLogin
  \/ ControllerLoginSettled
  \/ ControllerLogout
  \/ ControllerLogoutCleared
  \/ ServiceStartLoaded
  \/ ServiceWatched
  \/ ServicePipelineEnds

ControllerSpec == ControllerInit /\ [][ControllerNext]_vars

\* SettingsSpec: the SettingsStore alone.  desk is a record: store (settings:
\* this.settings; file: the content of settings.json), last (the call that
\* returned last) and unsaved (update() has replaced this.settings and its
\* file write is pending).  settings.json is absent, unparsable, or an object
\* written by this or an earlier version of the application, which listed
\* the placeholder names, or edited by hand.
MaxWatchFiles == 2    \* entries in a watchFiles list of a file or a patch
WatchNames == {"", "Timetable.tfx", "a.tfx", "b.tfx"}
WatchLists == UNION {[1..n -> WatchNames] : n \in 0..MaxWatchFiles}
TfxFiles == WatchNames \cup {UndefinedFile}

SettingsFiles ==
  {AbsentFile, UnparsableFile}
    \cup {ObjectFile([watchFiles |-> w, tfxFile |-> t]) :
            w \in WatchLists, t \in TfxFiles}

SettingsPatches ==
  {[watchFiles |-> w] : w \in WatchLists}
    \cup {[tfxFile |-> t] : t \in TfxFiles}
    \cup {[watchFiles |-> w, tfxFile |-> t] : w \in WatchLists, t \in TfxFiles}

SettingsInit ==
  /\ Constructed
  /\ historyLimit = 1
  /\ hasWatchFiles = TRUE
  /\ runBudget = MaxRuns
  /\ apiToken = "explicit"
  /\ loginCreds = FALSE
  /\ disk = [kind |-> "absent", list |-> << >>]
  /\ tokenCache = "none"
  /\ remote = AnyRemote
  /\ \E file \in SettingsFiles :
       desk = [store |-> [settings |-> getDefaultSettings, file |-> file],
               last |-> "none",
               unsaved |-> FALSE]

\* store.load() returns
StoreLoad ==
  /\ ~desk.unsaved
  /\ desk' = [desk EXCEPT
                !.store.settings = loadSettings(store.settings, store.file),
                !.store.file = loadFile(store.settings, store.file),
                !.last = "load"]
  /\ UNCHANGED tokenCache
  /\ DeskFrame

\* store.update(patch) up to the file write of save()
StoreUpdate(patch) ==
  /\ ~desk.unsaved
  /\ desk' = [desk EXCEPT
                !.store.settings = updateSettings(@, patch),
                !.unsaved = TRUE]
  /\ UNCHANGED tokenCache
  /\ DeskFrame

\* the file write of save() has settled and update() returns this.settings
StoreSaved ==
  /\ desk.unsaved
  /\ desk' = [desk EXCEPT !.store.file = ObjectFile(store.settings),
                          !.unsaved = FALSE,
                          !.last = "update"]
  /\ UNCHANGED tokenCache
  /\ DeskFrame

StoreUpdates == \E patch \in SettingsPatches : StoreUpdate(patch)

SettingsNext ==
  \/ StoreLoad
  \/ StoreUpdates
  \/ StoreSaved

SettingsSpec == SettingsInit /\ [][SettingsNext]_vars

\* ------------------------------------------------------------------ claims

\* C1: at most one pipeline execution is in progress at any time.
SingleFlight == Cardinality(InFlight) <= 1

\* C2: a file-change trigger accepted while not paused starts no run, records
\* its reason as the pending reason and leaves exactly one timeout armed, its
\* own; when that timeout fires with no run in flight and the service not
\* paused, exactly one run starts, with the pending reason, and no timeout and
\* no pending reason remain.
DebounceCoalescing ==
  [][ /\ \A w \in openWatchers : \A r \in FileReasons :
           (~paused /\ WatcherEvent(w, r)) =>
             /\ runs' = runs
             /\ pendingReason' = <<r>>
             /\ timer' # 0
             /\ liveTimers' = {timer'}
      /\ \A h \in liveTimers :
           (InFlight = {} /\ ~paused /\ TimerFire(h)) =>
             /\ pendingReason # << >>
             /\ Len(runs') = Len(runs) + 1
             /\ runs'[Len(runs')].reason = pendingReason[1]
             /\ runs'[Len(runs')].phase = "export"
             /\ pendingReason' = << >>
             /\ timer' = 0
             /\ liveTimers' = {} ]_vars

\* a run started by the timeout is in flight with a file-change reason
DebounceCoalescingWitness ==
  \E i \in InFlight :
    /\ runs[i].via = "timer"
    /\ runs[i].reason \in FileReasons
    /\ liveTimers = {}
    /\ pendingReason = << >>

\* C3: triggerSync(reason) with a timeout pending, no run in flight and the
\* service not paused starts a run with that reason in the same step and leaves
\* no timeout armed and no pending reason.
ManualPreempts ==
  [][ \A r \in ManualReasons :
        (timer \in liveTimers /\ InFlight = {} /\ ~paused /\ TriggerSync(r)) =>
          /\ Len(runs') = Len(runs) + 1
          /\ runs'[Len(runs')].reason = r
          /\ runs'[Len(runs')].phase = "export"
          /\ pendingReason' = << >>
          /\ timer' = 0
          /\ liveTimers' = {} ]_vars

\* a run started by triggerSync, which cleared a live timeout, is in flight
ManualPreemptsWitness ==
  \E i \in InFlight :
    /\ runs[i].via = "trigger"
    /\ runs[i].preempted
    /\ runs[i].reason \in ManualReasons
    /\ liveTimers = {}

\* what a trigger must leave alone while the service is paused
Ignored ==
  /\ UNCHANGED <<pendingReason, timer, liveTimers, runs, state, running,
                 paused, lastRun, lastResult, history>>
  /\ emitted' = << >>

\* C4: while paused, triggerSync and the watcher's add/change events change
\* nothing and emit nothing.
PausedIgnoresTriggers ==
  [][ paused =>
        /\ \A r \in ManualReasons : TriggerSync(r) => Ignored
        /\ \A w \in openWatchers : \A r \in FileReasons :
             WatcherEvent(w, r) => Ignored ]_vars

\* the service is paused with a trigger pending and a watcher still delivering
PausedIgnoresTriggersWitness ==
  /\ paused
  /\ pausePc = "idle"
  /\ openWatchers # {}
  /\ pendingReason # << >>
  /\ emitted = << >>

HistoryAppendOnly ==
  [][ \E k \in 0..Len(history') :
        history' = sliceLast(history \o SubSeq(history', Len(history') - k + 1,
                                                Len(history')),
                             historyLimit) ]_vars

\* C7: one uploadTimetable call sends at most two upload requests, and once the
\* second request has been answered it neither reads the token cache nor logs
\* in again: the run ends.
RetryOnce ==
  \A i \in InFlight :
    /\ runs[i].sent <= 2
    /\ (runs[i].sent = 2 => runs[i].phase = "fetch")

\* C8: a run that was in flight when stop() was called sets lastRun and
\* lastResult and appends its history entry when it finishes, and when stop()
\* has returned by then the state it leaves is 'stopped'.
StopLetsRunFinish ==
  [][ \A i \in InFlight :
        (runs[i].stopSeen /\ runs'[i].phase = "done") =>
          /\ lastRun' = runs[i].timestamp
          /\ lastResult'.status \in {"success", "skipped", "error"}
          /\ Len(history') >= 1
          /\ history'[Len(history')].timestamp = runs[i].timestamp
          /\ (stopPc = "done" => state' = "stopped") ]_vars

\* C9: once stop() has returned, no run starts, the watcher stays closed and
\* no timeout is armed.
StoppedIsTerminal ==
  [][ stopPc = "done" =>
        /\ Len(runs') = Len(runs)
        /\ watcher' = 0
        /\ openWatchers' = {}
        /\ timer' = 0
        /\ liveTimers' = {} ]_vars

\* C10: when the adapters terminate, every run finishes (a finished run stays
\* finished, so no run is in flight for ever exactly when the service is again
\* and again without a run in flight); the step that finishes a run leaves
\* running false and the state 'idle' or 'error'; and with no run in flight the
\* service is neither running nor 'syncing'.
RunsLeaveSyncing ==
  /\ [][ \A i \in InFlight :
            runs'[i].phase = "done" =>
              /\ running' = FALSE
              /\ state' \in {"idle", "error"} ]_vars
  /\ [](InFlight = {} => ~running /\ state # "syncing")
  /\ []<>(InFlight = {})

\* every run has finished and the last one to finish failed
RunsLeaveSyncingWitness ==
  /\ Len(runs) = MaxRuns
  /\ InFlight = {}
  /\ lastResult.status = "error"
  /\ state = "error"
  /\ ~running

\* the reasons as they are expected to appear in history entries
Titled(r) ==
  CASE r = StartupReason -> << <<"S", "tartup">>, <<"S", "ync">> >>
    [] r = ManualTrigger -> << <<"M", "anual">>, <<"T", "rigger">> >>
    [] r = FileAdded ->
         << <<"F", "ile">>, <<"A", "dded:">>, <<"/", "w/Timetable.tfx">> >>
    [] r = FileChanged ->
         << <<"F", "ile">>, <<"C", "hanged:">>, <<"/", "w/Timetable.tfx">> >>
    [] OTHER -> << <<"C", "hange">>, <<"D", "etected">> >>

\* C11: the step that completes a run sets lastRun to the run's timestamp and
\* lastResult.status to the outcome (success for a 2xx answer, skipped for a
\* skipped answer, error for a thrown failure), appends exactly one history
\* entry with that timestamp, that status and the capitalised reason, and sets
\* the state to 'idle' for success or skipped and to 'error' otherwise; a
\* finished run stays finished, and no other step touches lastRun or lastResult.
OutcomeRecorded ==
  [][ /\ \A i \in InFlight :
           runs'[i].phase = "done" =>
             /\ lastRun' = runs[i].timestamp
             /\ lastResult'.status \in {"success", "skipped", "error"}
             /\ Len(history') >= 1
             /\ history' = sliceLast(Append(history, history'[Len(history')]),
                                     historyLimit)
             /\ history'[Len(history')].timestamp = runs[i].timestamp
             /\ history'[Len(history')].status = lastResult'.status
             /\ history'[Len(history')].reason = Titled(runs[i].reason)
             /\ state' = IF lastResult'.status = "error" THEN "error"
                         ELSE "idle"
             /\ (\E c \in BOOLEAN : FetchDone(i, "ok", c))
                   => lastResult'.status = "success"
             /\ (\E c \in BOOLEAN : FetchDone(i, "skipped", c))
                   => lastResult'.status = "skipped"
             /\ (\E c \in BOOLEAN : FetchDone(i, "500", c))
                   => lastResult'.status = "error"
             /\ ExportDone(i, FALSE) => lastResult'.status = "error"
      /\ \A i \in 1..Len(runs) :
           runs[i].phase = "done" => runs'[i].phase = "done"
      /\ (\A i \in InFlight : runs'[i].phase # "done")
           => UNCHANGED <<lastRun, lastResult>> ]_vars

\* a manually triggered run has completed with a skipped upload
OutcomeRecordedWitness ==
  /\ lastResult.status = "skipped"
  /\ lastResult.message = DuplicateMessage
  /\ state = "idle"
  /\ history # << >>
  /\ history[Len(history)].reason = Titled(ManualTrigger)
  /\ history[Len(history)].status = "skipped"

\* C12: with no explicit token, no cached token and no login credentials, the
\* step in which token resolution ends completes the run as skipped with
\* reason 'no token', state 'idle' and one more history entry of status
\* skipped; and no step taken in such a state sends an upload request or
\* starts a login.
NoTokenSkips ==
  [][ (apiToken = "none" /\ ~loginCreds /\ tokenCache = "none") =>
        \A i \in InFlight :
          /\ runs'[i].sent <= runs[i].sent
          /\ runs'[i].phase = "login" => runs[i].phase = "login"
          /\ CacheRead(i) =>
                /\ runs'[i].phase = "done"
                /\ lastResult'.status = "skipped"
                /\ lastResult'.reason = NoToken
                /\ state' = "idle"
                /\ history' = sliceLast(Append(history, history'[Len(history')]),
                                        historyLimit)
                /\ history'[Len(history')].status = "skipped"
                /\ history'[Len(history')].timestamp = runs[i].timestamp ]_vars

\* the run started by triggerSync has been skipped for want of a token
NoTokenSkipsWitness ==
  /\ apiToken = "none"
  /\ ~loginCreds
  /\ tokenCache = "none"
  /\ startPc = "loading"
  /\ InFlight = {}
  /\ lastResult.status = "skipped"
  /\ lastResult.reason = NoToken
  /\ history # << >>
  /\ history[Len(history)].reason = Titled(ManualTrigger)

\* C13: the upload is sent with the explicit token when one is configured,
\* without reading the cache or logging in; otherwise with the cached token
\* when the cache file yields one, without logging in; otherwise with the
\* token returned by login.  A cache file that cannot be read or parsed
\* counts as no cached token: the run goes on to login (or is skipped without
\* credentials) and does not fail.
TokenOrder ==
  /\ [][ (apiToken = "explicit") => (tokenCache' = tokenCache) ]_vars
  /\ [][ \A i \in InFlight :
           /\ (apiToken = "explicit" /\ FilesRead(i, TRUE)) =>
                 /\ runs'[i].phase = "fetch"
                 /\ runs'[i].token = "explicit"
           /\ (tokenCache \in {"stale", "fresh"} /\ CacheRead(i)) =>
                 /\ runs'[i].phase = "fetch"
                 /\ runs'[i].token = tokenCache
           /\ (tokenCache \in {"none", "corrupt"} /\ CacheRead(i)) =>
                 /\ loginCreds => runs'[i].phase = "login"
                 /\ ~loginCreds =>
                       runs'[i].phase = "done" /\ lastResult'.status = "skipped"
           /\ LoginDone(i, "token", TRUE) =>
                 /\ runs'[i].phase = "fetch"
                 /\ runs'[i].token = "fresh" ]_vars
  /\ [](apiToken = "explicit" =>
          \A i \in InFlight : runs[i].phase \notin {"cache", "login"})

\* a run is logging in because the cache file could not be parsed
TokenOrderWitness ==
  /\ tokenCache = "corrupt"
  /\ \E i \in InFlight : runs[i].phase = "login" /\ runs[i].sent = 0

\* C14: triggerSync(reason) called while a pipeline is in flight (and the
\* service is not paused) starts no pipeline and leaves the pipelines in
\* flight as they are; the reason becomes the pending reason and a timeout is
\* armed to re-evaluate it.
QueuedWhileInFlight ==
  [][ \A r \in ManualReasons :
        (InFlight # {} /\ ~paused /\ TriggerSync(r)) =>
          /\ runs' = runs
          /\ pendingReason' = <<r>>
          /\ timer' \in liveTimers' ]_vars

Quiescent ==
  /\ startPc = "done"
  /\ stopPc # "closing"
  /\ pausePc = "idle"
  /\ InFlight = {}

StatusBroadcastComplete ==
  /\ [][(\E k \in 1..Len(emitted') : emitted'[k] = "status")
          => lastStatus' = getStatus']_vars
  /\ [][getStatus' # getStatus
          => \/ /\ emitted' # << >>
                /\ emitted'[Len(emitted')] = "status"
             \/ /\ pausePc = "idle"
                /\ pausePc' = "closing"]_vars
  /\ [](Quiescent => lastStatus = getStatus)

\* every operation has acted: start() has loaded, a run has failed, pause() has
\* closed the watcher and stop() has returned, and nothing is in progress
StatusBroadcastCompleteWitness ==
  /\ Quiescent
  /\ paused
  /\ watcher = 0
  /\ stopPc = "done"
  /\ state = "error"
  /\ Len(history) = 1
  /\ lastStatus = getStatus
  /\ lastStatus.lastResult.message = UploadFailed500

\* C17: a failure to persist the history is never raised.  The step in which
\* mkdir or writeFile fails changes nothing of the service, of its runs or of
\* the file and emits nothing; every step that finishes a run, whatever
\* happened to earlier writes, records the run's outcome in lastResult and
\* state, leaves its entry last in the history, starts a save and emits
\* 'history' then 'status'; and after a failed write a run in flight can take
\* its next step and a trigger can start a new run.
SaveFailed ==
  /\ savePending = 0
  /\ history # << >>
  /\ history[Len(history)].timestamp > 0
  /\ disk # [kind |-> "array", list |-> history]

SaveFailureNotRaised ==
  /\ [][SaveHistory(FALSE)
          => /\ UNCHANGED <<svc, cfg, ctl, disk, lastStatus>>
             /\ emitted' = << >>]_vars
  /\ [][\A i \in InFlight :
          runs'[i].phase = "done"
            => /\ emitted' = <<"history", "status">>
               /\ savePending' = savePending + 1
               /\ history' # << >>
               /\ history'[Len(history')].timestamp = runs[i].timestamp
               /\ history'[Len(history')].status = lastResult'.status
               /\ lastRun' = runs[i].timestamp
               /\ state' = IF lastResult'.status = "error" THEN "error"
                           ELSE "idle"]_vars
  /\ [](SaveFailed /\ InFlight # {}
          => ENABLED (ExportOk \/ ReadOk \/ FetchPlain))
  /\ [](SaveFailed /\ ~paused /\ ~running /\ Len(runs) < runBudget
          => ENABLED (Trigger /\ Len(runs') = Len(runs) + 1))

\* no write of this session reached the file, and the second run has finished
\* with success after the first
SaveFailureNotRaisedWitness ==
  /\ SaveFailed
  /\ disk.kind = "absent"
  /\ Len(runs) = 2
  /\ InFlight = {}
  /\ lastRun = 2
  /\ state = "idle"
  /\ lastResult.status = "success"
  /\ Len(history) = historyLimit

\* C18: a failure to write the token cache is never propagated.  When the
\* login request returns a token and writing the cache file fails, the run goes
\* on to send the upload with that token, and the step records no error: no
\* history entry is pushed and lastResult is left alone.
CacheWriteFailureContained ==
  [][ \A i \in InFlight :
        LoginDone(i, "token", FALSE)
          => /\ runs'[i].phase = "fetch"
             /\ runs'[i].token = "fresh"
             /\ runs'[i].sent = runs[i].sent + 1
             /\ history' = history
             /\ lastResult' = lastResult ]_vars

\* C19: a transient authorization failure is recovered transparently.  A run
\* whose upload was answered 401 and whose retry is answered 200 sent the retry
\* with a token obtained from login, never with the stale token of the cache,
\* and it ends with status success or skipped, state 'idle' and a last history
\* entry that is not an error.
TransientAuthRecovered ==
  [][ \A i \in InFlight :
        \A resp \in {"ok", "skipped"} : \A clearOk \in BOOLEAN :
          (runs[i].sent = 2 /\ FetchDone(i, resp, clearOk))
            => /\ runs[i].token = "fresh"
               /\ lastResult'.status \in {"success", "skipped"}
               /\ state' = "idle"
               /\ history'[Len(history')].status # "error" ]_vars

\* C20: a hard pipeline failure is contained.  When the export throws, the run
\* has sent no upload request and sends none; and the step in which the
\* export, a file read, the login request or the upload (a 500 answer, or a
\* 401 answer to an explicit token) fails ends the run with state 'error',
\* lastResult of status 'error' with the error's message, lastRun set, one
\* history entry of status 'error' with the message added at the end, running
\* false, 'history' then 'status' emitted, and start() returning normally when
\* it was the caller.
Contained(i, message) ==
  /\ runs'[i].phase = "done"
  /\ runs'[i].sent = 0
  /\ state' = "error"
  /\ lastRun' = runs[i].timestamp
  /\ lastResult'.status = "error"
  /\ lastResult'.message = message
  /\ history' = sliceLast(Append(history,
                   [timestamp |-> runs[i].timestamp, status |-> "error",
                    reason |-> Titled(runs[i].reason), message |-> message]),
                   historyLimit)
  /\ running' = FALSE
  /\ emitted' = <<"history", "status">>
  /\ (runs[i].via = "start" => startPc' = "done")
  /\ \A j \in InFlight \ {i} : runs'[j] = runs[j]

HardFailureContained ==
  [][ \A i \in InFlight :
        /\ ExportDone(i, FALSE)
             => runs[i].sent = 0 /\ Contained(i, ExportFailed)
        /\ FilesRead(i, FALSE) => Contained(i, ReadFailed)
        /\ \A w \in BOOLEAN :
             LoginDone(i, "fail", w) => Contained(i, LoginFailed)
        /\ \A c \in BOOLEAN :
             /\ FetchDone(i, "500", c) => Contained(i, UploadFailed500)
             /\ (apiToken = "explicit" /\ FetchDone(i, "401", c))
                  => Contained(i, UploadFailed401) ]_vars

\* two runs have finished, and the later one, started by a manual trigger,
\* failed in the export
HardFailureContainedWitness ==
  /\ Len(runs) = 2
  /\ InFlight = {}
  /\ startPc = "done"
  /\ state = "error"
  /\ ~running
  /\ lastRun = 2
  /\ lastResult.status = "error"
  /\ lastResult.message = ExportFailed
  /\ history = << [timestamp |-> 2, status |-> "error",
                   reason |-> Titled(ManualTrigger),
                   message |-> ExportFailed] >>

\* C21: duplicate suppression is decided by the remote only.  A run whose
\* files are read and whose token is resolved (explicit, cached, or obtained
\* by login) sends the upload, whatever earlier runs uploaded; a run ends
\* 'skipped' exactly when the remote answers skipped or no token is available,
\* and 'success' exactly when the remote accepts the upload; every finished run
\* adds one entry with its status at the end of the history; and of consecutive
\* runs against a remote that rejects a repeated fingerprint, every run after a
\* successful one is skipped as a duplicate.
UploadSent(i) ==
  /\ runs'[i].phase = "fetch"
  /\ runs'[i].sent = runs[i].sent + 1

RemoteDecidesDuplicates ==
  /\ [][ \A i \in InFlight :
          /\ (apiToken = "explicit" /\ FilesRead(i, TRUE)) => UploadSent(i)
          /\ (getCachedToken(tokenCache) # "none" /\ CacheRead(i))
               => UploadSent(i)
          /\ LoginDone(i, "token", TRUE) => UploadSent(i)
          /\ runs'[i].phase = "done"
               => /\ lastResult'.status = "skipped"
                       <=> \/ runs[i].phase \in {"cache", "login"}
                           \/ /\ runs[i].phase = "fetch"
                              /\ combinedHash \in remote.hashes
                  /\ lastResult'.status = "success"
                       <=> /\ runs[i].phase = "fetch"
                           /\ combinedHash \notin remote.hashes
                           /\ combinedHash \in remote'.hashes
                  /\ history' = sliceLast(Append(history,
                                   [timestamp |-> runs[i].timestamp,
                                    status |-> lastResult'.status,
                                    reason |-> Titled(runs[i].reason),
                                    message |-> lastResult'.message]),
                                   historyLimit) ]_vars
  /\ [](InFlight = {} /\ startPc = "done"
          => /\ Len(history) = IF Len(runs) < historyLimit THEN Len(runs)
                                ELSE historyLimit
             /\ apiToken = "explicit" /\ Len(runs) <= historyLimit
                  => history[1].status = "success"
             /\ \A k \in 1..Len(history) : \A l \in 1..Len(history) :
                  (k < l /\ history[k].status = "success")
                    => /\ history[l].status = "skipped"
                       /\ history[l].message = DuplicateMessage)

\* two consecutive runs have finished: the first obtained its token by login
\* and was accepted, the second was skipped by the remote as a duplicate
RemoteDecidesDuplicatesWitness ==
  /\ InFlight = {}
  /\ Len(runs) = 2
  /\ apiToken = "none"
  /\ tokenCache = "fresh"
  /\ remote.hashes = {combinedHash}
  /\ Len(history) = 2
  /\ history[1].status = "success"
  /\ history[2].status = "skipped"
  /\ history[2].timestamp = 2
  /\ lastResult.message = DuplicateMessage

\* C22: only the watcher's add and change events schedule a run.  An unlink
\* event leaves the pending reason, the timer and the armed timeouts as they
\* are, starts no run, changes no field of the service and emits nothing;
\* a step of the watcher that records a pending reason or arms a timeout
\* records the reason of an add or of a change event.
UnlinkSchedulesNothing ==
  [][ /\ Unlink
         => /\ UNCHANGED <<pendingReason, timer, liveTimers, runs, svc>>
            /\ emitted' = << >>
      /\ (Watch /\ (pendingReason' # pendingReason \/ timer' # timer))
         => /\ pendingReason' \in {<<r>> : r \in FileReasons}
            /\ timer' \in liveTimers'
            /\ runs' = runs ]_vars

\* a file-change trigger is pending with its timeout armed, no run is in
\* flight, and the watcher still delivers events, unlink among them
UnlinkSchedulesNothingWitness ==
  /\ startPc = "done"
  /\ InFlight = {}
  /\ ~paused
  /\ watcher \in openWatchers
  /\ ENABLED Unlink
  /\ pendingReason = <<FileAdded>>
  /\ timer \in liveTimers
  /\ emitted = << >>

\* C23: a timeout that fires while a pipeline is in flight starts no pipeline,
\* leaves the pending reason unchanged and arms a new timeout, which becomes
\* the service's timer.
FiringWhileInFlightRearms ==
  [][ \A h \in liveTimers :
        (InFlight # {} /\ TimerFire(h))
          => /\ runs' = runs
             /\ pendingReason' = pendingReason
             /\ timer' \in liveTimers'
             /\ timer' \notin liveTimers \ {h}
             /\ state' = state
             /\ emitted' = << >> ]_vars

\* C24: accepting a file-change trigger changes only the pending reason and
\* the debounce timer.  A step of the watcher's add or change listener leaves
\* state, running, paused, lastRun, lastResult and history unchanged, starts no
\* run and emits nothing; a timeout that fires without starting a run does the
\* same; and the step in which the timeout starts the run is the one that sets
\* state 'syncing' and emits 'status'.
AcceptingChangesOnlyPending ==
  [][ /\ Watch => /\ getStatus' = getStatus
                  /\ runs' = runs
                  /\ emitted' = << >>
                  /\ lastStatus' = lastStatus
      /\ Fire => IF runs' = runs
                   THEN /\ getStatus' = getStatus
                        /\ emitted' = << >>
                   ELSE /\ state' = "syncing"
                        /\ running'
                        /\ emitted' = <<"status">>
                        /\ lastStatus' = getStatus' ]_vars

\* a change of the file is pending with its timeout armed after start()'s run
\* has finished, and the status still shows the idle service of before
AcceptingChangesOnlyPendingWitness ==
  /\ startPc = "done"
  /\ InFlight = {}
  /\ pendingReason = <<FileChanged>>
  /\ timer \in liveTimers
  /\ state = "idle"
  /\ ~running
  /\ lastRun = 1
  /\ lastStatus = getStatus
  /\ emitted = << >>

PipelineEventOrder ==
  [][ /\ (Len(runs') > Len(runs))
         => /\ Len(runs') = Len(runs) + 1
            /\ runs'[Len(runs')].phase = "export"
            /\ emitted' = <<"status">>
            /\ lastStatus'.state = "syncing"
            /\ lastStatus'.running
      /\ \A i \in InFlight :
           IF runs'[i].phase = "done"
             THEN /\ emitted' = <<"history", "status">>
                  /\ Len(history') <= historyLimit
                  /\ history'[Len(history')].timestamp = runs[i].timestamp
                  /\ lastStatus'.history = history'
                  /\ ~lastStatus'.running
                  /\ lastStatus'.state \in {"idle", "error"}
             ELSE (runs'[i].phase # runs[i].phase \/ runs'[i].sent # runs[i].sent)
                    => (emitted' = << >>)
      /\ \A i \in 1..Len(runs) : (i \notin InFlight) => (runs'[i] = runs[i])
      /\ (\E k \in 1..Len(emitted') : emitted'[k] = "history")
         => (\E i \in InFlight : runs'[i].phase = "done") ]_vars

\* a run has just ended with success while another run is still in flight:
\* its 'history' and its exit 'status' were emitted in this order
PipelineEventOrderWitness ==
  /\ emitted = <<"history", "status">>
  /\ InFlight # {}
  /\ lastStatus.state = "idle"
  /\ ~lastStatus.running
  /\ Len(lastStatus.history) = 1
  /\ lastStatus.history[1].status = "success"

\* C27: start() performs its steps in order.  No run with reason 'Startup
\* Sync' exists while the history is being loaded; the step in which the load
\* settles assigns the loaded list (the last historyLimit entries of a
\* persisted array, nothing for a missing or unparsable file, the list as it
\* is for other JSON), leaves a watcher open when the service is not paused
\* and has a watch list, and starts one run with reason 'Startup Sync' at
\* once, touching neither the timer nor the pending reason; start() returns
\* in the step in which that run ends, whose entry is then the last of the
\* history; and the entries loaded from the file always precede the entries
\* of this session.
StartInOrder ==
  /\ [][ /\ (startPc = "loading" /\ startPc' # "loading")
            => /\ startPc' = "sync"
               /\ history' = CASE disk.kind = "array"
                                   -> sliceLast(disk.list, historyLimit)
                                [] disk.kind = "other" -> history
                                [] OTHER -> << >>
               /\ (watcher' # 0) <=> (watcher # 0 \/ (~paused /\ hasWatchFiles))
               /\ (watcher = 0 /\ watcher' # 0) => (watcher' \in openWatchers')
               /\ Len(runs') = Len(runs) + 1
               /\ runs'[Len(runs')].reason = StartupReason
               /\ runs'[Len(runs')].phase = "export"
               /\ UNCHANGED <<timer, liveTimers, pendingReason>>
         /\ (startPc # "done" /\ startPc' = "done")
            => /\ startPc = "sync"
               /\ \E i \in InFlight :
                    /\ runs[i].reason = StartupReason
                    /\ runs'[i].phase = "done"
                    /\ history'[Len(history')].timestamp = runs[i].timestamp
                    /\ history'[Len(history')].reason = Titled(StartupReason) ]_vars
  /\ [](startPc \in {"init", "loading"}
          => \A i \in 1..Len(runs) : runs[i].reason # StartupReason)
  /\ [](startPc = "sync"
          => \E i \in InFlight : runs[i].reason = StartupReason)
  /\ [](\A k \in 1..Len(history) : \A l \in 1..Len(history) :
          (k < l /\ history[l].timestamp <= 0) => (history[k].timestamp <= 0))

\* start() has returned: a persisted list was loaded, the watcher is open, and
\* the entry of the startup run follows a loaded entry
StartInOrderWitness ==
  /\ startPc = "done"
  /\ disk.kind = "array"
  /\ watcher \in openWatchers
  /\ Len(runs) = 1
  /\ Len(history) = 2
  /\ history[1].timestamp < 0
  /\ history[2].timestamp = 1
  /\ history[2].reason = Titled(StartupReason)

\* C28: a 401 answer to an upload sent with an explicitly supplied token is
\* final.  With an explicit token a run sends at most one request, with that
\* token, and never reads the token cache or logs in; the step in which the
\* 401 arrives leaves the token cache file as it is and ends the run with
\* state 'error' and the message of the failed upload.
ExplicitTokenNoRetry ==
  /\ [][ \A i \in InFlight : \A c \in BOOLEAN :
          (apiToken = "explicit" /\ FetchDone(i, "401", c))
            => /\ runs[i].sent = 1
               /\ runs[i].token = "explicit"
               /\ runs'[i].phase = "done"
               /\ tokenCache' = tokenCache
               /\ state' = "error"
               /\ lastResult'.status = "error"
               /\ lastResult'.message = UploadFailed401
               /\ history'[Len(history')].status = "error" ]_vars
  /\ [](apiToken = "explicit"
          => \A i \in InFlight :
               /\ runs[i].sent <= 1
               /\ runs[i].phase \notin {"cache", "login"}
               /\ runs[i].token \in {"none", "explicit"})

\* a run with an explicit token has failed on a 401 answer while a cached
\* token and login credentials were at hand; the cache file is still there
ExplicitTokenNoRetryWitness ==
  /\ apiToken = "explicit"
  /\ loginCreds
  /\ tokenCache = "stale"
  /\ InFlight = {}
  /\ state = "error"
  /\ lastResult.message = UploadFailed401

\* C29: the history is ordered by timestamp: no entry is earlier than the
\* entry before it.
HistoryAscending ==
  \A k \in 1..Len(history) : \A l \in 1..Len(history) :
    (k < l) => (history[k].timestamp <= history[l].timestamp)

\* a file-change trigger is pending on a timeout while the watcher is open,
\* the service is not paused and a run is left to start
Starvable ==
  /\ ~paused
  /\ openWatchers # {}
  /\ RunLeft
  /\ pendingReason # << >>
  /\ pendingReason[1] \in FileReasons
  /\ timer \in liveTimers

\* the timeout armed for a pending trigger fires unless another trigger
\* replaces it: the timeout is fair for as long as the same reason is pending
FireFor(r) == pendingReason = <<r>> /\ Fire
TimeoutsFire == \A r \in FileReasons \cup ManualReasons : WF_vars(FireFor(r))

\* a debounced run has started for the pending trigger
DebouncedStarted == pendingReason = << >> /\ InFlight # {}

\* C30: a debounced run starts only when the timeout armed by the latest
\* file-change trigger fires: an accepted file-change trigger clears the
\* timeout armed before it, arms a new one and starts no run, and a run is
\* started by a timeout only when the current timeout fires.  Starvation is
\* possible: whenever a file-change trigger is pending, a further one can
\* arrive and leaves a file-change trigger pending with no run started, so
\* there is a behaviour of file-change triggers only in which no pipeline
\* starts.  When file-change triggers cease and the armed timeout fires, a
\* pending trigger leads to a pipeline start.
DebounceWindow ==
  /\ [][ /\ (~paused /\ Watch)
            => /\ timer' \in TimerIds
               /\ liveTimers' = (liveTimers \ {timer}) \cup {timer'}
               /\ pendingReason' # << >>
               /\ Len(runs') = Len(runs)
         /\ (Len(runs') > Len(runs) /\ runs'[Len(runs')].via = "timer")
            => /\ ~Watch
               /\ ~paused
               /\ ~running
               /\ timer \in liveTimers
               /\ TimerFire(timer) ]_vars
  /\ [](liveTimers \subseteq {timer})
  /\ [](Starvable => ENABLED (Watch /\ Len(runs') = Len(runs) /\ Starvable'))
  /\ (<>[][~Watch]_vars /\ TimeoutsFire)
       => ((pendingReason # << >>) ~> DebouncedStarted)

\* two file-change triggers have arrived one after the other outside a run:
\* the second is pending on the only live timeout and no run was started
\* since the startup run finished
DebounceWindowWitness ==
  /\ startPc = "done"
  /\ ~running
  /\ InFlight = {}
  /\ Len(runs) = 1
  /\ pendingReason = <<FileChanged>>
  /\ liveTimers = {timer}
  /\ Starvable

\* C31: in every reachable state, state is 'syncing' exactly when running is
\* true, and running is true exactly when a pipeline is in flight, also after
\* stop() or pause() was called during a run.
SyncingIffRunning ==
  /\ (state = "syncing") <=> running
  /\ running <=> (InFlight # {})

\* C32: on a started service that was not stopped and has a watch list, when
\* no pause() is awaiting the watcher's close, the watcher is open if paused
\* is false and closed if paused is true.
WatcherFollowsPaused ==
  (startPc = "done" /\ stopPc = "idle" /\ hasWatchFiles /\ pausePc = "idle")
    => /\ ~paused => (watcher # 0 /\ watcher \in openWatchers)
       /\ paused => (watcher = 0 /\ openWatchers = {})

\* C33: in every reachable state at most one debounce timeout is outstanding,
\* it is the one held in this.timer, and a pending reason is recorded while
\* it is outstanding; no run in flight has the fallback reason 'change
\* detected'.
OneTimerWithReason ==
  /\ Cardinality(liveTimers) <= 1
  /\ liveTimers \subseteq {timer}
  /\ (liveTimers # {}) => (pendingReason # << >>)
  /\ \A i \in InFlight : runs[i].reason # ChangeDetected

\* a run started by a timeout is in flight with the reason of a file change,
\* and a later trigger is pending on a timeout that was re-armed by a firing
\* while this run was in progress
OneTimerWithReasonWitness ==
  /\ \E i \in InFlight : runs[i].via = "timer" /\ runs[i].reason \in FileReasons
  /\ running
  /\ pendingReason # << >>
  /\ liveTimers = {timer}

\* the core services the controller no longer holds: replaced by a newer
\* one, or released by stopService() or logout()
Released == {i \in 1..Len(services) : i # controller.service}

\* C34: every service the controller has replaced or logged out has been
\* stopped, has no watcher and no listeners of the controller, and starts no
\* further pipeline.
ReleasedServicesAreDead ==
  /\ [](\A i \in Released : /\ services[i].stopped
                            /\ services[i].watcher = "none"
                            /\ ~services[i].listeners)
  /\ [][ \A i \in Released :
           (i \in 1..Len(services') /\ ~services[i].running)
             => ~services'[i].running ]_vars

\* C35: the startup pipeline of the service the controller holds does not
\* begin while a pipeline of a service it has replaced is still in flight.
StartupAfterReplacedPipeline ==
  [][ \A j \in 1..Len(services) :
        (/\ j = controller.service
         /\ services[j].startPc = "loading"
         /\ services'[j].running)
          => \A i \in Released : ~services[i].running ]_vars

\* a controller call of the given kind returns in this step
Completes(op) ==
  /\ returned' # << >>
  /\ returned'[1].op = op
  /\ returned'[1].result = "ok"

\* C36: when logout() completes, the controller holds no service and the
\* service is stopped, the cached token is cleared or the failure to clear
\* it was logged, the stored settings have apiToken null, password '' and
\* remember false, the status is signed-out with paused true and running
\* false, and the last events emitted are 'status' then 'history'.
LogoutCompletes ==
  [][ Completes("logout") =>
        /\ controller'.service = 0
        /\ \A i \in 1..Len(services') : services'[i].stopped
        /\ tokenCache' = "none" \/ returned'[1].warned
        /\ store'.settings.apiToken = NullToken
        /\ store'.settings.password = ""
        /\ store'.settings.remember = FALSE
        /\ controller'.latestStatus =
             [state |-> "signed-out", paused |-> TRUE, running |-> FALSE]
        /\ forwarded' = <<"status", "history">> ]_vars

\* login() throws in this step for one of its own failures
LoginErrors == {loginError(resp) : resp \in {"invalid", "401", "500", "empty"}}

LoginThrows ==
  /\ returned' # << >>
  /\ returned'[1].op = "login"
  /\ returned'[1].result \in LoginErrors

\* C37: a login() that fails for empty credentials, a rejected request or a
\* missing token leaves the stored and current settings, the settings file,
\* the services, the held service, the latest status and the token cache as
\* they were and emits no event, in the step that starts it and in the step
\* that throws; with empty credentials no request is in flight at any time.
LoginFailureChangesNothing ==
  [][ /\ LoginThrows =>
           /\ store' = store
           /\ controller' = controller
           /\ services' = services
           /\ tokenCache' = tokenCache
           /\ forwarded' = << >>
      /\ (\E c \in Slots : calls[c].op # "login" /\ calls'[c].op = "login") =>
           /\ store' = store
           /\ controller' = controller
           /\ services' = services
           /\ tokenCache' = tokenCache
           /\ forwarded' = << >>
      /\ (LoginThrows /\ returned'[1].result = loginError("invalid")) =>
           calls' = calls ]_vars

\* a login request was rejected while a service was running and the user
\* was signed in
LoginFailureWitness ==
  /\ returned # << >>
  /\ returned[1].op = "login"
  /\ returned[1].result \in LoginErrors \ {loginError("invalid")}
  /\ controller.service # 0
  /\ services[controller.service].running
  /\ store.settings.apiToken = "token"
  /\ tokenCache = "stale"

\* the settings have an apiToken, the base directory that exists and a
\* non-empty watch file
Runnable(settings) ==
  /\ settings.apiToken # NullToken
  /\ settings.baseDir = "/data"
  /\ \E k \in 1..Len(settings.watchFiles) : settings.watchFiles[k] # ""

\* C38: with ensureServiceState, when init() or updateSettings() completes
\* the controller holds a service only if the current settings are runnable;
\* when they are not it holds none, every service it created is stopped, and
\* the status is paused, not running and 'setup-required' with an apiToken,
\* 'signed-out' without.
ServiceOnlyWhenRunnable ==
  [][ (desk.variant = "ensure" /\ (Completes("init") \/ Completes("update")))
        => IF Runnable(controller'.currentSettings)
             THEN TRUE
             ELSE /\ controller'.service = 0
                  /\ \A i \in 1..Len(services') : services'[i].stopped
                  /\ controller'.latestStatus =
                       [state |-> IF controller'.currentSettings.apiToken
                                       # NullToken
                                    THEN "setup-required" ELSE "signed-out",
                        paused |-> TRUE, running |-> FALSE] ]_vars

\* watchFiles has no empty value and no placeholder name, and tfxFile is one
\* of watchFiles, or undefined when there is none
WellFormedSettings(settings) ==
  /\ \A k \in 1..Len(settings.watchFiles) :
       /\ settings.watchFiles[k] # ""
       /\ settings.watchFiles[k] \notin LEGACY_WATCH_PLACEHOLDERS
  /\ IF Len(settings.watchFiles) > 0
       THEN includes(settings.watchFiles, settings.tfxFile)
       ELSE settings.tfxFile = UndefinedFile

\* C39: after load() or update() has returned, watchFiles contains no empty
\* value and no legacy placeholder name, and tfxFile is an element of
\* watchFiles when watchFiles is non-empty and undefined when it is empty.
SettingsWellFormed ==
  (desk.last \in {"load", "update"} /\ ~desk.unsaved)
    => WellFormedSettings(store.settings)

====
